---- MODULE Spec2Model ----
(***************************************************************************)
(* The five spreadsheet generators of ifa-professional-portal as a state   *)
(* machine.  Each script is a straight-line Python program over one        *)
(* openpyxl workbook: it is modelled as the sequence of workbook           *)
(* operations its statements and loops perform, executed one operation     *)
(* per step.  A cell carries the three attributes the properties speak     *)
(* about (value, number_format, fill); fonts, borders and alignment are    *)
(* left out, a statement that only sets one of them is the access of its   *)
(* cell.                                                                   *)
(*                                                                         *)
(* Characters outside ASCII in the source literals are written in braces   *)
(* (no source literal contains a brace):                                   *)
(*   {GBP} pound sign   {v} check mark   {--} em dash    {*} bullet        *)
(*   {->} arrow         {x} times sign   {OK} check box  {A^} A circumflex *)
(***************************************************************************)
EXTENDS Integers, Sequences, FiniteSets, TLC

(***************************************************************************)
(* Python values that reach a cell: str, int, float (as a fraction), None. *)
(***************************************************************************)
Str(s) == [k |-> "str", s |-> s, n |-> 0, d |-> 1]
Num(n) == [k |-> "int", s |-> "", n |-> n, d |-> 1]
Flt(n, d) == [k |-> "float", s |-> "", n |-> n, d |-> d]
None == [k |-> "none", s |-> "", n |-> 0, d |-> 1]
\* no assignment of the attribute (a cell that is only accessed)
KeepValue == [k |-> "keep", s |-> "", n |-> 0, d |-> 1]
Keep == "{keep}"

\* isinstance(value, int), isinstance(value, str), bool(value)
IsInt(v) == v.k = "int"
IsStr(v) == v.k = "str"
Truthy(v) ==
    CASE v.k = "str" -> v.s # ""
      [] v.k = "int" -> v.n # 0
      [] v.k = "float" -> v.n # 0
      [] OTHER -> FALSE

(***************************************************************************)
(* Strings: str.startswith, the `in' substring test, decimal digits.       *)
(***************************************************************************)
StartsWith(s, p) == Len(s) >= Len(p) /\ SubSeq(s, 1, Len(p)) = p
Contains(s, p) ==
    \E i \in 1..(Len(s) - Len(p) + 1) : SubSeq(s, i, i + Len(p) - 1) = p
CharAt(s, i) == SubSeq(s, i, i)

Letters == <<"A", "B", "C", "D", "E", "F", "G", "H", "I", "J", "K", "L", "M",
             "N", "O", "P", "Q", "R", "S", "T", "U", "V", "W", "X", "Y", "Z">>
Digits == <<"0", "1", "2", "3", "4", "5", "6", "7", "8", "9">>
IsLetter(c) == \E i \in 1..26 : Letters[i] = c
IsDigit(c) == \E i \in 1..10 : Digits[i] = c
LetterIndex(c) == CHOOSE i \in 1..26 : Letters[i] = c
DigitValue(c) == (CHOOSE i \in 1..10 : Digits[i] = c) - 1

\* openpyxl.utils.get_column_letter for the columns the scripts use
get_column_letter(col) == Letters[col]

\* value of the column letters s[i..j] (A = 1, ..., Z = 26, AA = 27)
RECURSIVE ColumnValue(_, _, _)
ColumnValue(s, i, j) ==
    IF j < i THEN 0
    ELSE 26 * ColumnValue(s, i, j - 1) + LetterIndex(CharAt(s, j))

\* value of the decimal digits s[i..j]
RECURSIVE DecimalValue(_, _, _)
DecimalValue(s, i, j) ==
    IF j < i THEN 0
    ELSE 10 * DecimalValue(s, i, j - 1) + DigitValue(CharAt(s, j))

\* end of the run of letters (digits) that starts at s[i]; i - 1 if none
RECURSIVE LetterRunEnd(_, _)
LetterRunEnd(s, i) ==
    IF i <= Len(s) /\ IsLetter(CharAt(s, i)) THEN LetterRunEnd(s, i + 1)
    ELSE i - 1
RECURSIVE DigitRunEnd(_, _)
DigitRunEnd(s, i) ==
    IF i <= Len(s) /\ IsDigit(CharAt(s, i)) THEN DigitRunEnd(s, i + 1)
    ELSE i - 1

\* ws['B5']: the coordinate string of a cell as <<row, column>>
Coordinate(a) ==
    LET le == LetterRunEnd(a, 1)
    IN  <<DecimalValue(a, le + 1, Len(a)), ColumnValue(a, 1, le)>>

\* f'A{i}': the coordinate string of column letter(s) c and row i
CoordOf(c, i) == c \o ToString(i)

(***************************************************************************)
(* Sequences of operations.                                                *)
(***************************************************************************)
\* for i, x in enumerate(xs): the operations Body(i, x), i counted from 1,
\* one iteration after the other
ForEach(xs, Body(_, _)) ==
    LET Upto[n \in 0..Len(xs)] ==
            IF n = 0 THEN <<>> ELSE Upto[n - 1] \o Body(n, xs[n])
    IN  Upto[Len(xs)]
\* for i in range(lo, hi + 1)
ForRange(lo, hi, Body(_)) ==
    LET Upto[n \in 0..(hi - lo + 1)] ==
            IF n = 0 THEN <<>> ELSE Upto[n - 1] \o Body(lo + n - 1)
    IN  Upto[hi - lo + 1]

(***************************************************************************)
(* The operations of a script.  sh is the worksheet the script variable    *)
(* refers to, by its position in the workbook (wb.active is sheet 1, the   *)
(* k-th create_sheet returns sheet k + 1).                                 *)
(***************************************************************************)
\* try: import openpyxl / except ImportError: (the handler is `skip' steps)
OpImportTry(skip) == [op |-> "import_try", skip |-> skip]
\* subprocess.check_call([sys.executable, "-m", "pip", "install", ...])
OpPip == [op |-> "pip"]
\* import openpyxl / from openpyxl import ... outside a try
OpImport == [op |-> "import"]
\* wb = Workbook()
OpWorkbook == [op |-> "workbook"]
\* ws.title = name
OpTitle(sh, name) == [op |-> "title", sh |-> sh, name |-> name]
\* wb.create_sheet(name)
OpCreateSheet(name) == [op |-> "create_sheet", name |-> name]
\* cell = ws.cell(row, column, value) followed by the assignments to
\* cell.fill and cell.number_format of the same statement group
OpCell(sh, row, col, v, fill, fmt) ==
    [op |-> "cell", sh |-> sh, row |-> row, col |-> col,
     v |-> IF v = None THEN KeepValue ELSE v, fill |-> fill, fmt |-> fmt,
     ifDefaultFill |-> FALSE]
\* if cell.fill.start_color.rgb == '00000000': cell.fill = fill
OpFillIfDefault(sh, row, col, fill) ==
    [op |-> "cell", sh |-> sh, row |-> row, col |-> col,
     v |-> KeepValue, fill |-> fill, fmt |-> Keep, ifDefaultFill |-> TRUE]
\* b assigned after a: the later assignment of an attribute wins
Then(a, b) == IF b = Keep THEN a ELSE b
\* ws['A1'] = v and ws['A1'].fill = ..., ws['A1'].number_format = ...
OpAt(sh, a, v, fill, fmt) ==
    OpCell(sh, Coordinate(a)[1], Coordinate(a)[2], v, fill, fmt)
\* ws.merge_cells('A1:F1')
OpMerge(sh, range) == [op |-> "merge", sh |-> sh, range |-> range]
\* ws.add_chart(chart, anchor)
OpChart(sh, chart, anchor) ==
    [op |-> "chart", sh |-> sh, chart |-> chart, anchor |-> anchor]
\* ws.column_dimensions[letter].width = w
OpWidth(sh, letter, w) == [op |-> "width", sh |-> sh, letter |-> letter, w |-> w]
\* ws.freeze_panes = a
OpFreeze(sh, a) == [op |-> "freeze", sh |-> sh, a |-> a]
\* wb.save(path)
OpSave(path) == [op |-> "save", path |-> path]
\* print(msg)
OpPrint(msg) == [op |-> "print", msg |-> msg]

(***************************************************************************)
(* openpyxl objects.                                                       *)
(***************************************************************************)
\* PatternFill(start_color=c, end_color=c, fill_type='solid'), as the rgb
\* its start_color reports; PatternFill() is the fill of a fresh cell
PatternFill(c) == "00" \o c
DefaultFill == "00000000"
DefaultFormat == "General"
\* the currency number format of the pricing scripts (pound sign, #,##0)
GBP == "{GBP}#,##0"
DefaultCell == [value |-> None, number_format |-> DefaultFormat, fill |-> DefaultFill]

\* Reference(ws, min_col, min_row, max_col=None, max_row=None)
Reference(sh, min_col, min_row, max_col, max_row) ==
    [sh |-> sh, min_col |-> min_col, min_row |-> min_row,
     max_col |-> IF max_col = 0 THEN min_col ELSE max_col,
     max_row |-> IF max_row = 0 THEN min_row ELSE max_row]
NoReference == [sh |-> 0, min_col |-> 0, min_row |-> 0, max_col |-> 0, max_row |-> 0]

\* the cells <<sheet, row, column>> of a reference
RefCells(r) ==
    {<<r.sh, row, col>> : row \in r.min_row..r.max_row, col \in r.min_col..r.max_col}

\* BarChart(), LineChart(), PieChart()
NewChart(kind) == [kind |-> kind, series |-> <<>>]

\* chart.add_data(data, titles_from_data): one series per column of the
\* reference; with titles_from_data the first cell of the column is the
\* title and the values start one row below
add_data(chart, data, titles_from_data) ==
    [chart EXCEPT !.series = @ \o
        [i \in 1..(data.max_col - data.min_col + 1) |->
            LET col == data.min_col + i - 1
            IN  [title |-> IF titles_from_data
                           THEN Reference(data.sh, col, data.min_row, 0, 0)
                           ELSE NoReference,
                 val |-> Reference(data.sh, col,
                                   IF titles_from_data THEN data.min_row + 1
                                   ELSE data.min_row,
                                   col, data.max_row),
                 cat |-> NoReference]]]

\* chart.set_categories(labels): the categories of every series
set_categories(chart, labels) ==
    [chart EXCEPT !.series = [i \in 1..Len(@) |-> [@[i] EXCEPT !.cat = labels]]]

\* the cells a chart reads its data (its categories) from
ChartDataCells(chart) ==
    UNION {RefCells(chart.series[i].val) \cup
           (IF chart.series[i].title = NoReference THEN {}
            ELSE RefCells(chart.series[i].title)) : i \in 1..Len(chart.series)}
ChartCategoryCells(chart) ==
    UNION {IF chart.series[i].cat = NoReference THEN {}
           ELSE RefCells(chart.series[i].cat) : i \in 1..Len(chart.series)}

\* 'A1:F1' as <<min_row, min_col, max_row, max_col>>
RangeOf(range) ==
    LET colon == CHOOSE i \in 1..Len(range) : CharAt(range, i) = ":"
        a == Coordinate(SubSeq(range, 1, colon - 1))
        b == Coordinate(SubSeq(range, colon + 1, Len(range)))
    IN  <<a[1], a[2], b[1], b[2]>>

\* openpyxl's avoid_duplicate_name: a title that is already in the workbook
\* gets the next free number appended
avoid_duplicate_name(names, value) ==
    IF \E i \in 1..Len(names) : names[i] = value
    THEN LET counts == {n \in 1..Len(names) :
                          \E i \in 1..Len(names) : names[i] = value \o ToString(n)}
             highest == IF counts = {} THEN 0
                        ELSE CHOOSE n \in counts : \A m \in counts : m <= n
         IN  value \o ToString(highest + 1)
    ELSE value

(***************************************************************************)
(* The two loops every script writes a table with.                         *)
(***************************************************************************)
\* a variation: every header is written into the first column of the row
write_headers_one_column(sh, row, start, headers, fill) ==
    ForEach(headers, LAMBDA i, header :
        <<OpCell(sh, row, start, Str(header), fill, Keep)>>)

\* for col, header in enumerate(headers, start):
\*     cell = ws.cell(row=row, column=col, value=header); cell.fill = fill
write_headers(sh, row, start, headers, fill) ==
    ForEach(headers, LAMBDA i, header :
        <<OpCell(sh, row, start + i - 1, Str(header), fill, Keep)>>)

\* for row_idx, row_data in enumerate(data, start):
\*     for col_idx, value in enumerate(row_data, 1):
\*         cell = ws.cell(row=row_idx, column=col_idx, value=value)
\*         cell.fill = ...; cell.number_format = ...
\* Fill and Format give the attribute assigned for (row_idx, col_idx, value)
write_rows(sh, start, data, Fill(_, _, _), Format(_, _, _)) ==
    ForEach(data, LAMBDA i, row_data :
        ForEach(row_data, LAMBDA col_idx, value :
            <<OpCell(sh, start + i - 1, col_idx, value,
                     Fill(start + i - 1, col_idx, value),
                     Format(start + i - 1, col_idx, value))>>))

\* ws[a] = text; ws[a].font = ...
Label(sh, a, text) ==
    <<OpAt(sh, a, Str(text), Keep, Keep), OpAt(sh, a, KeepValue, Keep, Keep)>>
\* ws[a].font = ..., ws[a].border = ...: the cell is accessed
Access(sh, a) == OpAt(sh, a, KeepValue, Keep, Keep)
NoFill(row_idx, col_idx, value) == Keep
NoFormat(row_idx, col_idx, value) == Keep

\* create-cyber-essentials-excel.py, lines 39-39
ce_headers ==
    <<"Section",
      "Q No.",
      "Question",
      "Guidance",
      "Answer Type",
      "Draft Answer",
      "Status">>

\* create-cyber-essentials-excel.py, lines 48-152
ce_data ==
    <<<<Str("A1 - Organisation"), Str("A1.1"), Str("What is your organisation's name?"), Str("Name displayed on certificate (max 150 chars)"), Str("Notes"), Str("TBC"), Str("Pending")>>,
      <<Str("A1 - Organisation"), Str("A1.2"), Str("What type of organisation are you?"), Str("LTD/LLP/CIC/COP/MTL/CHA/GOV/SOL/PRT/SOC/OTH"), Str("Multiple choice"), Str("TBC"), Str("Pending")>>,
      <<Str("A1 - Organisation"), Str("A1.3"), Str("What is your organisation's registration number?"), Str("Companies House number or 'none'"), Str("Notes"), Str("TBC"), Str("Pending")>>,
      <<Str("A1 - Organisation"), Str("A1.4"), Str("What is your organisation's address?"), Str("Legal registered address"), Str("Notes"), Str("TBC"), Str("Pending")>>,
      <<Str("A1 - Organisation"), Str("A1.5"), Str("What is your main business?"), Str("Select from list - likely Finance or IT"), Str("Multiple choice"), Str("TBC"), Str("Pending")>>,
      <<Str("A1 - Organisation"), Str("A1.6"), Str("What is your website address?"), Str("Website or LinkedIn/Facebook page"), Str("Notes"), Str("https://plannetic.com"), Str("Confirm")>>,
      <<Str("A1 - Organisation"), Str("A1.7"), Str("Is this application a renewal or first time?"), Str("Renewal or First Time Application"), Str("Select"), Str("First Time Application"), Str("Confirm")>>,
      <<Str("A1 - Organisation"), Str("A1.8"), Str("What are the two main reasons for applying?"), Str("Select two reasons"), Str("Multiple choice"), Str("TBC - likely 'to give confidence to our customers' + 'to generally improve our security'"), Str("Pending")>>,
      <<Str("A1 - Organisation"), Str("A1.9"), Str("Have you read the CE Requirements document?"), Str(""), Str("Yes/No"), Str("Yes"), Str("Ready")>>,
      <<Str("A1 - Organisation"), Str("A1.10"), Str("Can IASME contact you if you experience a breach?"), Str(""), Str("Yes/No"), Str("TBC"), Str("Pending")>>,
      <<Str("A1 - Organisation"), Str("A1.11"), Str("Can IASME contact you for research purposes?"), Str(""), Str("Yes/No"), Str("TBC"), Str("Pending")>>,
      <<Str("A2 - Scope"), Str("A2.1"), Str("Does the scope cover your whole organisation?"), Str("Whole org = eligible for free insurance"), Str("Yes/No"), Str("Yes"), Str("Confirm")>>,
      <<Str("A2 - Scope"), Str("A2.2"), Str("Scope description (if not whole org)"), Str("Only if A2.1 = No"), Str("Notes"), Str("N/A"), Str("N/A")>>,
      <<Str("A2 - Scope"), Str("A2.3"), Str("Geographical locations in scope"), Str("List locations or 'All UK offices'"), Str("Notes"), Str("All UK locations including home/remote working locations for all staff."), Str("Ready")>>,
      <<Str("A2 - Scope"), Str("A2.4"), Str("Laptops/desktops/virtual desktops (qty + make + OS)"), Str("Must include make and OS version"), Str("Notes"), Str("1 x Apple Mac laptop running macOS 26.1 (Build 25B78)"), Str("Ready - add more if needed")>>,
      <<Str("A2 - Scope"), Str("A2.4.1"), Str("Thin clients (qty + make + OS)"), Str(""), Str("Notes"), Str("None"), Str("Ready")>>,
      <<Str("A2 - Scope"), Str("A2.5"), Str("Servers/virtual servers/hypervisors/VDI"), Str(""), Str("Notes"), Str("None - all infrastructure is cloud-hosted via Vercel (PaaS) and Supabase (PaaS)."), Str("Ready")>>,
      <<Str("A2 - Scope"), Str("A2.6"), Str("Tablets and mobile devices (qty + make + OS)"), Str(""), Str("Notes"), Str("TBC"), Str("Pending")>>,
      <<Str("A2 - Scope"), Str("A2.7"), Str("Networks in scope (name + location + purpose)"), Str(""), Str("Notes"), Str("Home/Remote Worker Networks - staff work from home using domestic broadband connections. All devices secured by software firewalls."), Str("Ready")>>,
      <<Str("A2 - Scope"), Str("A2.7.1"), Str("How many staff are home or remote workers?"), Str(""), Str("Notes"), Str("TBC"), Str("Pending")>>,
      <<Str("A2 - Scope"), Str("A2.8"), Str("Network equipment in scope (firewalls/routers - make + model)"), Str("Must include make and model"), Str("Notes"), Str("All staff are remote workers using home broadband routers (various makes/models managed by ISPs). Software firewalls enabled on all endpoint devices. Staff do not have admin access to home routers."), Str("Ready")>>,
      <<Str("A2 - Scope"), Str("A2.9"), Str("Cloud services (third party - SaaS/PaaS/IaaS)"), Str(""), Str("Notes"), Str("Supabase (PaaS), Vercel (PaaS), GitHub (SaaS), Resend (SaaS), OpenSign (SaaS), Ordnance Survey (SaaS), DeepSeek (SaaS), Alpha Vantage (SaaS). [TBC: Add email/collab suite, password manager]"), Str("Partial")>>,
      <<Str("A2 - Scope"), Str("A2.10"), Str("Person responsible for managing IT (name + role)"), Str("Must be org employee, not outsourced IT"), Str("Notes"), Str("TBC"), Str("Pending")>>,
      <<Str("A3 - Insurance"), Str("A3.1"), Str("UK/Crown Dependencies HQ and turnover < {A^}{GBP}20m?"), Str("Eligibility for free insurance"), Str("Yes/No"), Str("Yes"), Str("Confirm")>>,
      <<Str("A3 - Insurance"), Str("A3.2"), Str("Opt out of insurance? (if A3.1 = Yes)"), Str(""), Str("Yes/No"), Str("No - we wish to receive the included cyber insurance"), Str("Ready")>>,
      <<Str("A3 - Insurance"), Str("A3.3"), Str("Insurance contact email (if not opted out)"), Str(""), Str("Notes"), Str("TBC"), Str("Pending")>>,
      <<Str("A4 - Firewalls"), Str("A4.1"), Str("Do you have firewalls at internet boundaries?"), Str(""), Str("Yes/No"), Str("Yes"), Str("Ready")>>,
      <<Str("A4 - Firewalls"), Str("A4.1.1"), Str("Software firewalls enabled on all computers/laptops/servers?"), Str(""), Str("Yes/No"), Str("Yes - we use the built-in macOS Application Firewall; it is enabled and kept enabled at all times, including on untrusted networks (home/public Wi-Fi)."), Str("Ready")>>,
      <<Str("A4 - Firewalls"), Str("A4.1.2"), Str("If A4.1.1 = No: list OS without firewall"), Str(""), Str("Notes"), Str("N/A"), Str("N/A")>>,
      <<Str("A4 - Firewalls"), Str("A4.2"), Str("Default admin passwords changed on boundary firewalls?"), Str(""), Str("Yes/No"), Str("Yes - for home workers, domestic routers managed by ISPs with unique passwords. Software firewalls protected by device credentials."), Str("Ready")>>,
      <<Str("A4 - Firewalls"), Str("A4.2.1"), Str("Process for changing firewall password"), Str(""), Str("Notes"), Str("Software firewalls protected by device login credentials. Password changes via System Settings > Users & Groups. Follows password policy (min 12 chars or MFA + 8 chars)."), Str("Ready")>>,
      <<Str("A4 - Firewalls"), Str("A4.3"), Str("Firewall password configuration option (A-E)"), Str("A=MFA+8, B=Block common+8, C=12 chars, D=Passwordless, E=Other"), Str("Select"), Str("Option C - Minimum 12 characters, no maximum length"), Str("Ready")>>,
      <<Str("A4 - Firewalls"), Str("A4.4"), Str("Change firewall password when compromised?"), Str(""), Str("Yes/No"), Str("Yes"), Str("Ready")>>,
      <<Str("A4 - Firewalls"), Str("A4.5"), Str("Process to manage firewall?"), Str(""), Str("Yes/No"), Str("Yes"), Str("Ready")>>,
      <<Str("A4 - Firewalls"), Str("A4.6"), Str("Firewall rules reviewed in last 12 months?"), Str(""), Str("Notes"), Str("Software firewalls use default secure settings blocking all incoming connections. No custom inbound rules. Verified during device setup and periodically checked. Cloud services manage own infrastructure firewalls."), Str("Ready")>>,
      <<Str("A4 - Firewalls"), Str("A4.7"), Str("Firewall allows unauthenticated inbound connections?"), Str(""), Str("Yes/No"), Str("No - all inbound blocked by default"), Str("Ready")>>,
      <<Str("A4 - Firewalls"), Str("A4.8"), Str("How inbound connections approved & documented"), Str(""), Str("Notes"), Str("No inbound connections permitted to endpoints. All services via outbound to cloud. Any exception requires documented written approval from IT manager with business justification."), Str("Ready")>>,
      <<Str("A4 - Firewalls"), Str("A4.9"), Str("Firewall admin interface accessible from internet?"), Str(""), Str("Yes/No"), Str("No - only accessible locally via System Settings"), Str("Ready")>>,
      <<Str("A4 - Firewalls"), Str("A4.10"), Str("If A4.9 = Yes: documented business requirement?"), Str(""), Str("Yes/No"), Str("N/A"), Str("N/A")>>,
      <<Str("A4 - Firewalls"), Str("A4.11"), Str("If A4.9 = Yes: MFA or IP allow list protection?"), Str(""), Str("Notes"), Str("N/A"), Str("N/A")>>,
      <<Str("A5 - Secure Config"), Str("A5.1"), Str("Removed/disabled unnecessary software? (describe)"), Str(""), Str("Notes"), Str("All devices configured with only business-required software. Staff instructed not to install unnecessary apps. macOS Gatekeeper prevents unsigned apps. Regular reviews to remove unused software."), Str("Ready")>>,
      <<Str("A5 - Secure Config"), Str("A5.2"), Str("Only necessary user accounts exist?"), Str(""), Str("Yes/No"), Str("Yes - only required accounts. Guest accounts disabled. Unused accounts removed promptly."), Str("Ready")>>,
      <<Str("A5 - Secure Config"), Str("A5.3"), Str("Default/guessable passwords changed?"), Str(""), Str("Yes/No"), Str("Yes - all default passwords changed to strong, unique passwords per password policy."), Str("Ready")>>,
      <<Str("A5 - Secure Config"), Str("A5.4"), Str("Run/host external services with non-public data?"), Str(""), Str("Yes/No"), Str("Yes - Plannetic platform accessed by authenticated users over internet, handles client financial data."), Str("Ready")>>,
      <<Str("A5 - Secure Config"), Str("A5.5"), Str("If A5.4 = Yes: authentication option (A-E)"), Str(""), Str("Select"), Str("Option A - MFA with min 8 char password. Plannetic uses Supabase Auth with MFA (TOTP)."), Str("Ready")>>,
      <<Str("A5 - Secure Config"), Str("A5.6"), Str("If A5.4 uses passwords: process to change on compromise"), Str(""), Str("Notes"), Str("1) User notified, must change password; 2) Sessions terminated via Supabase admin; 3) MFA verified/re-enrolled; 4) Incident logged and reviewed."), Str("Ready")>>,
      <<Str("A5 - Secure Config"), Str("A5.7"), Str("If A5.4 = Yes and not MFA: brute force protection (A-C)"), Str(""), Str("Select"), Str("Option A - Throttling. Supabase Auth rate limiting + account lockout after failed attempts."), Str("Ready")>>,
      <<Str("A5 - Secure Config"), Str("A5.8"), Str("Auto-run/execute disabled?"), Str(""), Str("Yes/No"), Str("Yes - macOS doesn't auto-run from external media. Users prompted before opening downloads. Gatekeeper prevents unsigned auto-run."), Str("Ready")>>,
      <<Str("A5 - Secure Config"), Str("A5.9"), Str("Device locking enabled?"), Str(""), Str("Yes/No"), Str("Yes - all devices require authentication"), Str("Ready")>>,
      <<Str("A5 - Secure Config"), Str("A5.10"), Str("If A5.9 = Yes: device unlock method(s)"), Str(""), Str("Notes"), Str("macOS: Touch ID biometric with password fallback (min 8 chars). Auto-lock after inactivity. Password/biometric on wake."), Str("Ready")>>,
      <<Str("A6 - Updates"), Str("A6.1"), Str("All OS supported and receiving updates?"), Str(""), Str("Yes/No"), Str("Yes - macOS 26.1 (Tahoe) fully supported by Apple."), Str("Ready")>>,
      <<Str("A6 - Updates"), Str("A6.2"), Str("All software supported with vulnerability fixes?"), Str(""), Str("Yes/No"), Str("Yes - all software licensed and receiving updates."), Str("Ready")>>,
      <<Str("A6 - Updates"), Str("A6.2.1"), Str("Browsers (name + version)"), Str(""), Str("Notes"), Str("Google Chrome 143.0.7499.110, Mozilla Firefox 146.0, Microsoft Edge 143.0.3650.80, Safari 26.1"), Str("Ready")>>,
      <<Str("A6 - Updates"), Str("A6.2.2"), Str("Malware protection software (name + version)"), Str(""), Str("Notes"), Str("macOS: XProtect (built-in, auto-updating) + Gatekeeper + MRT"), Str("Ready")>>,
      <<Str("A6 - Updates"), Str("A6.2.3"), Str("Email applications (name + version)"), Str(""), Str("Notes"), Str("Apple Mail 16.0, web-based email via browser"), Str("Ready")>>,
      <<Str("A6 - Updates"), Str("A6.2.4"), Str("Office applications (name + version)"), Str(""), Str("Notes"), Str("Apple Pages 14.4, Apple Numbers 14.4, Apple Keynote 14.4, Microsoft OneNote 16.104"), Str("Ready")>>,
      <<Str("A6 - Updates"), Str("A6.3"), Str("Any unlicensed/unsupported software?"), Str(""), Str("Yes/No"), Str("No"), Str("Ready")>>,
      <<Str("A6 - Updates"), Str("A6.3.1"), Str("If A6.3 = Yes: list unsupported/unlicensed"), Str(""), Str("Notes"), Str("N/A"), Str("N/A")>>,
      <<Str("A6 - Updates"), Str("A6.4"), Str("Critical OS/firmware updates within 14 days?"), Str(""), Str("Yes/No"), Str("Yes - all high/critical updates applied within 14 days. Auto-updates enabled."), Str("Ready")>>,
      <<Str("A6 - Updates"), Str("A6.4.1"), Str("OS updates via auto-updates?"), Str(""), Str("Yes/No"), Str("Yes - macOS automatic updates enabled"), Str("Ready")>>,
      <<Str("A6 - Updates"), Str("A6.4.2"), Str("If not auto: how ensure within 14 days"), Str(""), Str("Notes"), Str("Auto-updates primary mechanism. Monitor vendor release notes, manually trigger if not auto-applied within 7 days."), Str("Ready")>>,
      <<Str("A6 - Updates"), Str("A6.5"), Str("Critical application updates within 14 days?"), Str(""), Str("Yes/No"), Str("Yes"), Str("Ready")>>,
      <<Str("A6 - Updates"), Str("A6.5.1"), Str("App updates via auto-updates?"), Str(""), Str("Yes/No"), Str("Yes - App Store auto-updates, browser auto-updates, Microsoft AutoUpdate"), Str("Ready")>>,
      <<Str("A6 - Updates"), Str("A6.5.2"), Str("If not auto: how ensure within 14 days"), Str(""), Str("Notes"), Str("Auto-updates primary. Staff trained to accept prompts. Periodic compliance checks."), Str("Ready")>>,
      <<Str("A6 - Updates"), Str("A6.6"), Str("Remove unsupported software when EOL?"), Str(""), Str("Yes/No"), Str("Yes"), Str("Ready")>>,
      <<Str("A6 - Updates"), Str("A6.7"), Str("If unsupported needed: moved out of scope?"), Str(""), Str("Notes"), Str("Not applicable - no unsupported software used."), Str("Ready")>>,
      <<Str("A7 - Access Control"), Str("A7.1"), Str("User account creation approval process"), Str(""), Str("Notes"), Str("1) Manager requests; 2) IT verifies & determines role; 3) Account created with min permissions; 4) User receives password setup link; 5) MFA mandatory before first access."), Str("Ready")>>,
      <<Str("A7 - Access Control"), Str("A7.2"), Str("Unique credentials for all accounts?"), Str(""), Str("Yes/No"), Str("Yes - all users have unique credentials. Sharing prohibited."), Str("Ready")>>,
      <<Str("A7 - Access Control"), Str("A7.3"), Str("Leaver process (disable/delete accounts)"), Str(""), Str("Notes"), Str("1) HR notifies IT of leaving date; 2) On leaving: accounts disabled, access revoked, device wiped; 3) Confirmed within 24 hours."), Str("Ready")>>,
      <<Str("A7 - Access Control"), Str("A7.4"), Str("Least privilege process"), Str(""), Str("Notes"), Str("RBAC in Plannetic: Admin, Advisor, Compliance, Support, Client roles. Access reviewed on role change. Periodic access reviews."), Str("Ready")>>,
      <<Str("A7 - Access Control"), Str("A7.5"), Str("Admin access granting process"), Str(""), Str("Notes"), Str("1) Written request with justification; 2) Director approval; 3) Separate admin account; 4) Documented in register; 5) Quarterly review."), Str("Ready")>>,
      <<Str("A7 - Access Control"), Str("A7.6"), Str("Separate admin accounts for admin tasks"), Str(""), Str("Notes"), Str("Admin tasks use dedicated accounts. Cloud: separate admin with MFA. Devices: standard user for daily work, separate admin for config."), Str("Ready")>>,
      <<Str("A7 - Access Control"), Str("A7.7"), Str("Prevent admin accounts for web/email"), Str(""), Str("Notes"), Str("Admin accounts not configured with email. Training that admin not for browsing. Cloud admin logged out after use."), Str("Ready")>>,
      <<Str("A7 - Access Control"), Str("A7.8"), Str("Track who has admin accounts?"), Str(""), Str("Yes/No"), Str("Yes - admin access register maintained"), Str("Ready")>>,
      <<Str("A7 - Access Control"), Str("A7.9"), Str("Review admin access regularly?"), Str(""), Str("Yes/No"), Str("Yes - quarterly review. Unused privileges removed."), Str("Ready")>>,
      <<Str("A7 - Access Control"), Str("A7.10"), Str("Brute-force protection for passwords"), Str(""), Str("Notes"), Str("Supabase: rate limiting + lockout. macOS: throttling. Cloud services: vendor protection + MFA."), Str("Ready")>>,
      <<Str("A7 - Access Control"), Str("A7.11"), Str("Technical controls for password quality"), Str(""), Str("Notes"), Str("Min 8 chars with MFA (Supabase). Min 12 chars without MFA. No max length. Common password blocking where supported."), Str("Ready")>>,
      <<Str("A7 - Access Control"), Str("A7.12"), Str("How support unique/strong passwords"), Str(""), Str("Notes"), Str("Password manager recommended. Three random words training. No regular expiry. No complexity requirements. No reuse training."), Str("Ready")>>,
      <<Str("A7 - Access Control"), Str("A7.13"), Str("Compromised password/account process?"), Str(""), Str("Yes/No"), Str("Yes - report, force reset, terminate sessions, re-verify MFA, review incident."), Str("Ready")>>,
      <<Str("A7 - Access Control"), Str("A7.14"), Str("All cloud services have MFA available?"), Str(""), Str("Yes/No"), Str("Yes - Supabase, Vercel, GitHub, Resend all have MFA. [Confirm: OpenSign, Alpha Vantage, Ordnance Survey]"), Str("Partial")>>,
      <<Str("A7 - Access Control"), Str("A7.15"), Str("If A7.14 = No: list services without MFA"), Str(""), Str("Notes"), Str("N/A"), Str("N/A")>>,
      <<Str("A7 - Access Control"), Str("A7.16"), Str("MFA applied to all cloud admins?"), Str(""), Str("Yes/No"), Str("Yes - MFA mandatory for all admin accounts"), Str("Ready")>>,
      <<Str("A7 - Access Control"), Str("A7.17"), Str("MFA applied to all cloud users?"), Str(""), Str("Yes/No"), Str("Yes - MFA mandatory for all users"), Str("Ready")>>,
      <<Str("A8 - Malware"), Str("A8.1"), Str("Malware protection method(s) (A/B/C)"), Str("A=Anti-malware, B=Allow-listing, C=Other"), Str("Select"), Str("Both A and B: Anti-malware (XProtect, Gatekeeper) + Allow-listing (Gatekeeper code signing, App Store)"), Str("Ready")>>,
      <<Str("A8 - Malware"), Str("A8.2"), Str("If Option A: anti-malware updates + blocks malware?"), Str(""), Str("Yes/No"), Str("Yes - XProtect auto-updates. Gatekeeper prevents execution. MRT removes detected malware."), Str("Ready")>>,
      <<Str("A8 - Malware"), Str("A8.3"), Str("If Option A: scans/warns on malicious sites?"), Str(""), Str("Yes/No"), Str("Yes - Safari Fraudulent Warning, Chrome Safe Browsing, Firefox protection, Edge SmartScreen"), Str("Ready")>>,
      <<Str("A8 - Malware"), Str("A8.4"), Str("If Option B: users restricted from unsigned apps?"), Str(""), Str("Yes/No"), Str("Yes - Gatekeeper blocks unsigned apps. Cannot run without admin intervention."), Str("Ready")>>,
      <<Str("A8 - Malware"), Str("A8.5"), Str("If Option B: only approved apps + list maintained?"), Str(""), Str("Yes/No"), Str("Yes - staff instructed on approved apps. List maintained. New requests need approval."), Str("Ready")>>>>

\* create-cyber-essentials-excel.py, lines 177-177
ce_column_widths ==
    <<18, 8, 50, 40, 15, 60, 12>>

\* create-cyber-essentials-excel.py, lines 209-221
ce_pending_items ==
    <<"A1.1 - Organisation name",
      "A1.2 - Organisation type",
      "A1.3 - Registration number",
      "A1.4 - Registered address",
      "A1.5 - Main business",
      "A1.8 - Reasons for certification",
      "A1.10/A1.11 - Contact permissions",
      "A2.6 - Mobile devices",
      "A2.7.1 - Remote workers count",
      "A2.10 - IT responsible person",
      "A3.3 - Insurance contact email">>

(***************************************************************************)
(* create-cyber-essentials-excel.py                                        *)
(***************************************************************************)
\* a variation: the imports without the guard, as in the pricing scripts
ce_imports_unguarded == <<OpImport, OpImport, OpImport, OpImport, OpImport>>

\* lines 9-18: the guarded import with install on demand, then the imports
ce_imports == <<OpImportTry(2), OpPip, OpImport, OpImport, OpImport, OpImport>>

\* lines 21-23: wb = Workbook(); ws = wb.active; ws.title = "CE Question Set"
ce_workbook == <<OpWorkbook, OpTitle(1, "CE Question Set")>>

ce_header_fill == PatternFill("4472C4")

\* lines 40-45: for col, header in enumerate(headers, 1)
ce_write_headers == write_headers(1, 1, 1, ce_headers, ce_header_fill)

\* a variation: the status is compared by its beginning
ce_status_fill_prefix(value) ==
    IF StartsWith(value.s, "Ready") THEN PatternFill("C6EFCE")
    ELSE IF StartsWith(value.s, "Pending") THEN PatternFill("FFEB9C")
    ELSE IF StartsWith(value.s, "Confirm") THEN PatternFill("BDD7EE")
    ELSE IF StartsWith(value.s, "Partial") THEN PatternFill("FCE4D6")
    ELSE Keep

\* lines 166-174: the fill of a Status cell
ce_status_fill(value) ==
    IF value = Str("Ready") THEN PatternFill("C6EFCE")
    ELSE IF value = Str("Pending") THEN PatternFill("FFEB9C")
    ELSE IF value = Str("Confirm") THEN PatternFill("BDD7EE")
    ELSE IF value = Str("Partial") THEN PatternFill("FCE4D6")
    ELSE Keep

\* lines 155-174: for row_num, row_data in enumerate(data, 2):
\*                    for col_num, value in enumerate(row_data, 1)
ce_write_data ==
    write_rows(1, 2, ce_data,
               LAMBDA row_num, col_num, value :
                   IF col_num = 7 THEN ce_status_fill(value) ELSE Keep,
               NoFormat)

\* lines 177-182: column widths and the frozen top row
ce_set_widths ==
    ForEach(ce_column_widths, LAMBDA col_num, width :
        <<OpWidth(1, get_column_letter(col_num), width)>>)
    \o <<OpFreeze(1, "A2")>>

\* lines 185-227: the summary sheet
ce_summary ==
    <<OpCreateSheet("Summary"),
      OpAt(2, "A1", Str("Cyber Essentials Certification - Status Summary"), Keep, Keep),
      OpAt(2, "A1", KeepValue, Keep, Keep),
      OpAt(2, "A3", Str("Status Legend:"), Keep, Keep),
      OpAt(2, "A4", Str("Ready"), Keep, Keep),
      OpAt(2, "A4", KeepValue, PatternFill("C6EFCE"), Keep),
      OpAt(2, "B4", Str("Answer complete and verified"), Keep, Keep),
      OpAt(2, "A5", Str("Confirm"), Keep, Keep),
      OpAt(2, "A5", KeepValue, PatternFill("BDD7EE"), Keep),
      OpAt(2, "B5", Str("Needs your confirmation"), Keep, Keep),
      OpAt(2, "A6", Str("Pending"), Keep, Keep),
      OpAt(2, "A6", KeepValue, PatternFill("FFEB9C"), Keep),
      OpAt(2, "B6", Str("Requires your input (TBC)"), Keep, Keep),
      OpAt(2, "A7", Str("Partial"), Keep, Keep),
      OpAt(2, "A7", KeepValue, PatternFill("FCE4D6"), Keep),
      OpAt(2, "B7", Str("Partially complete, needs review"), Keep, Keep),
      OpAt(2, "A9", Str("Items Requiring Your Input:"), Keep, Keep),
      OpAt(2, "A9", KeepValue, Keep, Keep)>>
    \o ForEach(ce_pending_items, LAMBDA i, item :
        <<OpAt(2, CoordOf("A", 10 + i - 1), Str(item), Keep, Keep)>>)
    \o <<OpWidth(2, "A", 40), OpWidth(2, "B", 40)>>

\* lines 230-232
ce_output_path ==
    "/Users/adeomosanya/Documents/ifa-professional-portal/cyber-essentials/Cyber-Essentials-Question-Set-Answers.xlsx"
ce_save ==
    <<OpSave(ce_output_path), OpPrint("Excel file created: " \o ce_output_path)>>

\* a variation: the workbook is saved as soon as it exists, before it is filled
ce_program_save_early ==
    ce_imports \o ce_workbook \o ce_save \o ce_write_headers \o ce_write_data
    \o ce_set_widths \o ce_summary

ce_program ==
    ce_imports \o ce_workbook \o ce_write_headers \o ce_write_data
    \o ce_set_widths \o ce_summary \o ce_save

\* create-mema-cyber-essentials.py, lines 36-36
mema_headers ==
    <<"Section",
      "Q No.",
      "Question",
      "Your Answer",
      "Status">>

\* create-mema-cyber-essentials.py, lines 45-149
mema_data ==
    <<<<Str("A1 Organisation"), Str("A1.1"), Str("Organisation name"), Str("MEMA Financial Services Ltd"), Str("Ready")>>,
      <<Str("A1 Organisation"), Str("A1.2"), Str("Organisation type"), Str("LTD - Limited Company"), Str("Ready")>>,
      <<Str("A1 Organisation"), Str("A1.3"), Str("Registration number"), Str("15382445"), Str("Ready")>>,
      <<Str("A1 Organisation"), Str("A1.4"), Str("Registered address"), Str("34-35 Hatton Garden, London, England, EC1N 8DX"), Str("Ready")>>,
      <<Str("A1 Organisation"), Str("A1.5"), Str("Main business"), Str("IT"), Str("Ready")>>,
      <<Str("A1 Organisation"), Str("A1.6"), Str("Website address"), Str("https://plannetic.com"), Str("Ready")>>,
      <<Str("A1 Organisation"), Str("A1.7"), Str("Renewal or first time"), Str("First Time Application"), Str("Ready")>>,
      <<Str("A1 Organisation"), Str("A1.8"), Str("Two main reasons for applying"), Str("Primary: To give confidence to our customers\nSecondary: To generally improve our security"), Str("Ready")>>,
      <<Str("A1 Organisation"), Str("A1.9"), Str("Read CE Requirements document?"), Str("Yes"), Str("Ready")>>,
      <<Str("A1 Organisation"), Str("A1.10"), Str("IASME breach contact permission"), Str("No"), Str("Ready")>>,
      <<Str("A1 Organisation"), Str("A1.11"), Str("IASME research contact permission"), Str("No"), Str("Ready")>>,
      <<Str("A2 Scope"), Str("A2.1"), Str("Whole organisation in scope?"), Str("Yes"), Str("Ready")>>,
      <<Str("A2 Scope"), Str("A2.2"), Str("Scope description (if not whole org)"), Str("N/A - whole organisation in scope"), Str("N/A")>>,
      <<Str("A2 Scope"), Str("A2.3"), Str("Geographical locations in scope"), Str("All UK locations. MEMA Financial Services operates fully remotely with 2 home-based employees."), Str("Ready")>>,
      <<Str("A2 Scope"), Str("A2.4"), Str("Laptops/desktops (qty + make + OS)"), Str("2 laptops:\n- 1 x Apple MacBook Pro running macOS 26.1\n- 1 x Dell laptop running Windows 11"), Str("Ready")>>,
      <<Str("A2 Scope"), Str("A2.4.1"), Str("Thin clients"), Str("None"), Str("Ready")>>,
      <<Str("A2 Scope"), Str("A2.5"), Str("Servers/virtual servers/hypervisors/VDI"), Str("None - all infrastructure is cloud-hosted via AWS (Vercel) and Supabase (PaaS)."), Str("Ready")>>,
      <<Str("A2 Scope"), Str("A2.6"), Str("Tablets and mobile devices"), Str("1 x Samsung mobile phone running Android 15"), Str("Ready")>>,
      <<Str("A2 Scope"), Str("A2.7"), Str("Networks in scope"), Str("Home/Remote Worker Networks - both employees work from home using domestic broadband connections. All devices are secured by software firewalls (macOS Application Firewall and Windows Defender Firewall)."), Str("Ready")>>,
      <<Str("A2 Scope"), Str("A2.7.1"), Str("Remote workers count"), Str("2 - all employees are home/remote workers"), Str("Ready")>>,
      <<Str("A2 Scope"), Str("A2.8"), Str("Network equipment (firewalls/routers)"), Str("All staff are remote workers using home broadband routers (various makes/models managed by ISPs). Software firewalls are enabled on all endpoint devices. Staff do not have administrative access to home routers."), Str("Ready")>>,
      <<Str("A2 Scope"), Str("A2.9"), Str("Cloud services (third party)"), Str("- Supabase (PaaS) - Database and authentication\n- Vercel/AWS (PaaS) - Application hosting\n- GitHub (SaaS) - Source code repository\n- Google Workspace (SaaS) - Email and collaboration\n- 1Password (SaaS) - Password management\n- Resend (SaaS) - Email delivery\n- OpenSign (SaaS) - Document signing\n- Ordnance Survey (SaaS) - UK address lookup API\n- DeepSeek (SaaS) - AI/LLM API\n- Alpha Vantage (SaaS) - Financial data API"), Str("Ready")>>,
      <<Str("A2 Scope"), Str("A2.10"), Str("Person responsible for IT"), Str("Ade Omosanya, Director"), Str("Ready")>>,
      <<Str("A3 Insurance"), Str("A3.1"), Str("UK HQ and turnover < {GBP}20m?"), Str("Yes"), Str("Ready")>>,
      <<Str("A3 Insurance"), Str("A3.2"), Str("Opt out of insurance?"), Str("No - we wish to receive the included cyber insurance"), Str("Ready")>>,
      <<Str("A3 Insurance"), Str("A3.3"), Str("Insurance contact email"), Str("info@memaconsultants.com"), Str("Confirm email")>>,
      <<Str("A4 Firewalls"), Str("A4.1"), Str("Firewalls at internet boundaries?"), Str("Yes"), Str("Ready")>>,
      <<Str("A4 Firewalls"), Str("A4.1.1"), Str("Software firewalls enabled on all devices?"), Str("Yes - we use the built-in macOS Application Firewall and Windows Defender Firewall; both are enabled and kept enabled at all times, including on untrusted networks (home/public Wi-Fi)."), Str("ACTION: Verify both firewalls are ON")>>,
      <<Str("A4 Firewalls"), Str("A4.1.2"), Str("If no software firewall: list OS"), Str("N/A"), Str("N/A")>>,
      <<Str("A4 Firewalls"), Str("A4.2"), Str("Default passwords changed on firewalls?"), Str("Yes - for home workers, domestic routers are managed by ISPs with unique per-device passwords. Software firewalls are protected by device login credentials following our password policy."), Str("Ready")>>,
      <<Str("A4 Firewalls"), Str("A4.2.1"), Str("Process for changing firewall password"), Str("Software firewalls are protected by device login credentials. Password changes are performed via System Settings (macOS) or Windows Settings when required. Device passwords follow our policy of minimum 12 characters."), Str("Ready")>>,
      <<Str("A4 Firewalls"), Str("A4.3"), Str("Firewall password configuration (A-E)"), Str("Option C - Minimum 12 characters, no maximum length"), Str("Ready")>>,
      <<Str("A4 Firewalls"), Str("A4.4"), Str("Change password when compromised?"), Str("Yes - if we know or suspect a device password has been compromised, we immediately change it and review for unauthorised access."), Str("Ready")>>,
      <<Str("A4 Firewalls"), Str("A4.5"), Str("Process to manage firewall?"), Str("Yes"), Str("Ready")>>,
      <<Str("A4 Firewalls"), Str("A4.6"), Str("Firewall rules reviewed in last 12 months?"), Str("Software firewalls use default secure settings blocking all incoming connections. No custom inbound rules configured. Configuration verified during device setup and periodically checked. Cloud services (Vercel, Supabase) manage their own infrastructure firewalls."), Str("Ready")>>,
      <<Str("A4 Firewalls"), Str("A4.7"), Str("Allows unauthenticated inbound?"), Str("No - all inbound connections blocked by default on endpoint devices."), Str("Ready")>>,
      <<Str("A4 Firewalls"), Str("A4.8"), Str("How inbound connections approved?"), Str("No inbound connections permitted to endpoint devices. All services accessed via outbound connections to cloud platforms. Any exception would require documented written approval from the Director with clear business justification."), Str("Ready")>>,
      <<Str("A4 Firewalls"), Str("A4.9"), Str("Admin interface accessible from internet?"), Str("No - firewall settings only accessible locally via device System Settings."), Str("Ready")>>,
      <<Str("A4 Firewalls"), Str("A4.10"), Str("If yes: documented business need?"), Str("N/A"), Str("N/A")>>,
      <<Str("A4 Firewalls"), Str("A4.11"), Str("If yes: MFA or IP allow list?"), Str("N/A"), Str("N/A")>>,
      <<Str("A5 Secure Config"), Str("A5.1"), Str("Removed unnecessary software?"), Str("All devices configured with only business-required software. Staff instructed not to install unnecessary applications. macOS Gatekeeper and Windows SmartScreen prevent unsigned/untrusted applications. Regular reviews conducted to remove unused software."), Str("Ready")>>,
      <<Str("A5 Secure Config"), Str("A5.2"), Str("Only necessary user accounts?"), Str("Yes - only required user accounts exist on devices and cloud services. Guest accounts disabled. Unused accounts removed promptly."), Str("Ready")>>,
      <<Str("A5 Secure Config"), Str("A5.3"), Str("Default passwords changed?"), Str("Yes - all default passwords changed to strong, unique passwords managed via 1Password."), Str("Ready")>>,
      <<Str("A5 Secure Config"), Str("A5.4"), Str("Run external services with non-public data?"), Str("Yes - Plannetic is a web application accessed by authenticated IFA clients over the internet. It handles client financial and compliance data."), Str("Ready")>>,
      <<Str("A5 Secure Config"), Str("A5.5"), Str("Authentication option (A-E)"), Str("Option A - Multi-factor authentication with minimum 8 character password. Plannetic uses Supabase Auth with MFA (TOTP) for all users."), Str("Ready")>>,
      <<Str("A5 Secure Config"), Str("A5.6"), Str("Process to change password on compromise"), Str("1) User notified immediately and required to change password\n2) All sessions terminated via Supabase admin dashboard\n3) MFA verified/re-enrolled\n4) Incident logged and reviewed"), Str("Ready")>>,
      <<Str("A5 Secure Config"), Str("A5.7"), Str("Brute force protection (A-C)"), Str("Option A - Throttling. Supabase Auth provides rate limiting and account lockout after failed attempts."), Str("Ready")>>,
      <<Str("A5 Secure Config"), Str("A5.8"), Str("Auto-run disabled?"), Str("Yes - macOS doesn't auto-run from external media. Windows SmartScreen blocks untrusted apps. Users prompted before opening downloads."), Str("Ready")>>,
      <<Str("A5 Secure Config"), Str("A5.9"), Str("Device locking enabled?"), Str("Yes - all devices require authentication to access."), Str("Ready")>>,
      <<Str("A5 Secure Config"), Str("A5.10"), Str("Device unlock method"), Str("macOS: Touch ID biometric with password fallback (min 8 chars)\nWindows: Windows Hello or password (min 12 chars)\nAndroid: Fingerprint/PIN (min 6 digits)"), Str("Ready")>>,
      <<Str("A6 Updates"), Str("A6.1"), Str("All OS supported?"), Str("Yes - all devices run supported operating systems:\n- macOS 26.1 (Tahoe) - supported\n- Windows 11 - supported\n- Android 15 - supported"), Str("Ready")>>,
      <<Str("A6 Updates"), Str("A6.2"), Str("All software supported?"), Str("Yes - all software licensed and receiving security updates."), Str("Ready")>>,
      <<Str("A6 Updates"), Str("A6.2.1"), Str("Browsers (name + version)"), Str("Google Chrome 143.0.7499.110\nMozilla Firefox 146.0\nMicrosoft Edge 143.0.3650.80\nSafari 26.1"), Str("Ready")>>,
      <<Str("A6 Updates"), Str("A6.2.2"), Str("Malware protection"), Str("macOS: XProtect (built-in, auto-updating) + Gatekeeper + MRT\nWindows: Microsoft Defender Antivirus (built-in, auto-updating)"), Str("Ready")>>,
      <<Str("A6 Updates"), Str("A6.2.3"), Str("Email applications"), Str("Google Workspace Gmail (web-based via browser)\nApple Mail 16.0 (macOS)"), Str("Ready")>>,
      <<Str("A6 Updates"), Str("A6.2.4"), Str("Office applications"), Str("Google Workspace (Docs, Sheets, Slides - web-based)\nApple Pages 14.4, Numbers 14.4, Keynote 14.4\nMicrosoft OneNote 16.104"), Str("Ready")>>,
      <<Str("A6 Updates"), Str("A6.3"), Str("Any unlicensed/unsupported software?"), Str("No"), Str("Ready")>>,
      <<Str("A6 Updates"), Str("A6.3.1"), Str("List unsupported/unlicensed"), Str("N/A"), Str("N/A")>>,
      <<Str("A6 Updates"), Str("A6.4"), Str("Critical updates within 14 days?"), Str("Yes - all high/critical security updates applied within 14 days. Automatic updates enabled on all devices."), Str("Ready")>>,
      <<Str("A6 Updates"), Str("A6.4.1"), Str("OS auto-updates enabled?"), Str("Yes - automatic updates enabled on both macOS and Windows devices."), Str("Ready")>>,
      <<Str("A6 Updates"), Str("A6.4.2"), Str("If not auto: how ensure 14 days?"), Str("Automatic updates are primary mechanism. Director monitors vendor release notes and manually triggers if not auto-applied within 7 days."), Str("Ready")>>,
      <<Str("A6 Updates"), Str("A6.5"), Str("App updates within 14 days?"), Str("Yes"), Str("Ready")>>,
      <<Str("A6 Updates"), Str("A6.5.1"), Str("App auto-updates enabled?"), Str("Yes - App Store (macOS), Microsoft Store (Windows), Chrome/Firefox/Edge all have auto-updates enabled."), Str("Ready")>>,
      <<Str("A6 Updates"), Str("A6.5.2"), Str("If not auto: how ensure 14 days?"), Str("Auto-updates primary. Staff accept update prompts promptly. Periodic compliance checks by Director."), Str("Ready")>>,
      <<Str("A6 Updates"), Str("A6.6"), Str("Remove unsupported when EOL?"), Str("Yes - unsupported software removed when it reaches end-of-life."), Str("Ready")>>,
      <<Str("A6 Updates"), Str("A6.7"), Str("Unsupported moved out of scope?"), Str("Not applicable - no unsupported software used."), Str("Ready")>>,
      <<Str("A7 Access Control"), Str("A7.1"), Str("Account creation approval process"), Str("As a 2-person company, the Director (Ade Omosanya) approves all account creation. New accounts created with minimum necessary permissions. MFA enrollment mandatory before first access."), Str("Ready")>>,
      <<Str("A7 Access Control"), Str("A7.2"), Str("Unique credentials?"), Str("Yes - all users have unique credentials. Account sharing prohibited."), Str("Ready")>>,
      <<Str("A7 Access Control"), Str("A7.3"), Str("Leaver process"), Str("When an employee leaves: 1) All cloud service accounts immediately disabled/deleted 2) Device collected and wiped 3) Passwords to shared systems changed 4) Confirmed within 24 hours"), Str("Ready")>>,
      <<Str("A7 Access Control"), Str("A7.4"), Str("Least privilege"), Str("Role-based access control (RBAC) implemented in Plannetic. Users granted minimum permissions for their role. Cloud service access limited to job requirements."), Str("Ready")>>,
      <<Str("A7 Access Control"), Str("A7.5"), Str("Admin access process"), Str("Director approval required for admin access. Separate admin accounts used. Access documented and reviewed quarterly."), Str("Ready")>>,
      <<Str("A7 Access Control"), Str("A7.6"), Str("Separate admin accounts"), Str("Admin tasks performed using dedicated accounts. Cloud platforms: separate admin accounts with MFA. Day-to-day work uses standard accounts."), Str("Ready")>>,
      <<Str("A7 Access Control"), Str("A7.7"), Str("Prevent admin for email/browsing"), Str("Admin accounts not used for email or browsing. Staff trained on this policy. Cloud admin sessions logged out after use."), Str("Ready")>>,
      <<Str("A7 Access Control"), Str("A7.8"), Str("Track admin accounts?"), Str("Yes - Director maintains record of all admin access."), Str("Ready")>>,
      <<Str("A7 Access Control"), Str("A7.9"), Str("Review admin access regularly?"), Str("Yes - reviewed quarterly. Unused privileges removed."), Str("Ready")>>,
      <<Str("A7 Access Control"), Str("A7.10"), Str("Brute-force protection"), Str("All systems protected:\n- 1Password: Account lockout\n- Google Workspace: Rate limiting + MFA\n- Supabase: Rate limiting + lockout\n- Device logins: Throttling after failed attempts"), Str("Ready")>>,
      <<Str("A7 Access Control"), Str("A7.11"), Str("Password quality controls"), Str("Technical controls via 1Password and cloud providers:\n- Minimum 8 characters with MFA enabled\n- Minimum 12 characters where MFA not available\n- No maximum length\n- Common password blocking"), Str("Ready")>>,
      <<Str("A7 Access Control"), Str("A7.12"), Str("Support strong passwords"), Str("1Password used for generating and storing unique passwords. Staff trained on three random words method. No regular password expiry. No complexity requirements."), Str("Ready")>>,
      <<Str("A7 Access Control"), Str("A7.13"), Str("Compromised password process?"), Str("Yes - report immediately, force reset, terminate sessions, re-verify MFA, review incident."), Str("Ready")>>,
      <<Str("A7 Access Control"), Str("A7.14"), Str("All cloud services have MFA?"), Str("Yes - all cloud services provide MFA:\n- Google Workspace {v}\n- Supabase {v}\n- Vercel {v}\n- GitHub {v}\n- 1Password {v}"), Str("Ready")>>,
      <<Str("A7 Access Control"), Str("A7.15"), Str("Services without MFA option"), Str("N/A - all services have MFA"), Str("N/A")>>,
      <<Str("A7 Access Control"), Str("A7.16"), Str("MFA on all cloud admins?"), Str("Yes - MFA mandatory for all admin accounts."), Str("Ready")>>,
      <<Str("A7 Access Control"), Str("A7.17"), Str("MFA on all cloud users?"), Str("Yes - MFA mandatory for all users."), Str("Ready")>>,
      <<Str("A8 Malware"), Str("A8.1"), Str("Malware protection method (A/B/C)"), Str("Both A and B:\nA - Anti-malware: Windows Defender, macOS XProtect\nB - Allow-listing: Gatekeeper (macOS), SmartScreen (Windows), Google Play Protect (Android)"), Str("Ready")>>,
      <<Str("A8 Malware"), Str("A8.2"), Str("Anti-malware updates + blocks?"), Str("Yes - Windows Defender and XProtect auto-update and block/quarantine detected malware."), Str("Ready")>>,
      <<Str("A8 Malware"), Str("A8.3"), Str("Warns on malicious sites?"), Str("Yes:\n- Chrome: Safe Browsing enabled\n- Firefox: Phishing protection enabled\n- Edge: SmartScreen enabled\n- Safari: Fraudulent Website Warning enabled"), Str("Ready")>>,
      <<Str("A8 Malware"), Str("A8.4"), Str("Users restricted from unsigned apps?"), Str("Yes - Gatekeeper (macOS) and SmartScreen (Windows) block unsigned/untrusted apps. Users cannot bypass without admin intervention."), Str("Ready")>>,
      <<Str("A8 Malware"), Str("A8.5"), Str("Only approved apps + list maintained?"), Str("Yes - staff instructed to only install approved business applications. Director approves new app requests. Mobile: only official app stores used."), Str("Ready")>>>>

\* create-mema-cyber-essentials.py, lines 166-166
mema_widths ==
    <<18, 8, 45, 70, 25>>

\* create-mema-cyber-essentials.py, lines 180-186
mema_actions ==
    <<"1. macOS Firewall is ENABLED (System Settings > Network > Firewall)",
      "2. Windows Defender Firewall is ENABLED (Settings > Privacy & security > Windows Security > Firewall)",
      "3. Confirm insurance email address is correct",
      "4. All devices have auto-updates enabled",
      "5. MFA is enforced on all cloud services">>

(***************************************************************************)
(* create-mema-cyber-essentials.py                                         *)
(***************************************************************************)
\* a variation: the install is run a second time before the import
mema_imports_retry ==
    <<OpImportTry(3), OpPip, OpPip, OpImport, OpImport, OpImport, OpImport>>

\* lines 9-17
mema_imports == <<OpImportTry(2), OpPip, OpImport, OpImport, OpImport, OpImport>>

\* lines 19-21
mema_workbook == <<OpWorkbook, OpTitle(1, "CE Answers")>>

mema_header_fill == PatternFill("2F5496")
mema_ready_fill == PatternFill("C6EFCE")
mema_action_fill == PatternFill("FFEB9C")

\* lines 37-42: for col, header in enumerate(headers, 1)
mema_write_headers == write_headers(1, 1, 1, mema_headers, mema_header_fill)

\* a variation: only a value that starts with ACTION is marked
mema_status_fill_action_only(value) ==
    IF value = Str("Ready") THEN mema_ready_fill
    ELSE IF StartsWith(value.s, "ACTION") THEN mema_action_fill
    ELSE Keep

\* lines 159-163: the fill of a Status cell
mema_status_fill(value) ==
    IF value = Str("Ready") THEN mema_ready_fill
    ELSE IF Contains(value.s, "ACTION") \/ Contains(value.s, "Confirm") THEN mema_action_fill
    ELSE Keep

\* lines 152-163
mema_write_data ==
    write_rows(1, 2, mema_data,
               LAMBDA row_num, col_num, value :
                   IF col_num = 5 THEN mema_status_fill(value) ELSE Keep,
               NoFormat)

\* lines 166-170
mema_set_widths ==
    ForEach(mema_widths, LAMBDA col, width :
        <<OpWidth(1, get_column_letter(col), width)>>)
    \o <<OpFreeze(1, "A2")>>

\* lines 173-198: the actions sheet
mema_summary ==
    <<OpCreateSheet("Actions Required"),
      OpAt(2, "A1", Str("MEMA Financial Services - Cyber Essentials Actions"), Keep, Keep),
      OpAt(2, "A1", KeepValue, Keep, Keep),
      OpAt(2, "A3", Str("Before Submission - Verify:"), Keep, Keep),
      OpAt(2, "A3", KeepValue, Keep, Keep)>>
    \o ForEach(mema_actions, LAMBDA i, action :
        <<OpAt(2, CoordOf("A", 4 + i - 1), Str(action), Keep, Keep)>>)
    \o <<OpAt(2, "A10", Str("Company Details Confirmed:"), Keep, Keep),
         OpAt(2, "A10", KeepValue, Keep, Keep),
         OpAt(2, "A11", Str("MEMA Financial Services Ltd"), Keep, Keep),
         OpAt(2, "A12", Str("Company Number: 15382445"), Keep, Keep),
         OpAt(2, "A13", Str("34-35 Hatton Garden, London, EC1N 8DX"), Keep, Keep),
         OpAt(2, "A14", Str("IT Contact: Ade Omosanya, Director"), Keep, Keep),
         OpWidth(2, "A", 80)>>

\* lines 201-203
mema_output ==
    "/Users/adeomosanya/Documents/ifa-professional-portal/cyber-essentials/MEMA-Cyber-Essentials-Answers.xlsx"
mema_save == <<OpSave(mema_output), OpPrint("Created: " \o mema_output)>>

mema_program ==
    mema_imports \o mema_workbook \o mema_write_headers \o mema_write_data
    \o mema_set_widths \o mema_summary \o mema_save

\* plannetic-pricing-analysis.py, lines 47-56
v1_summary_text ==
    <<"Plannetic is a comprehensive, compliance-focused financial advisory platform",
      "designed specifically for UK-regulated Independent Financial Advisors (IFAs).",
      "",
      "Key Value Proposition:",
      "{*} Replaces 5-7 separate tools with one integrated platform",
      "{*} Saves IFAs {GBP}170+/month vs competitor tool stack ({GBP}420 {->} {GBP}250)",
      "{*} Saves 10-20 hours per client onboarding",
      "{*} Built-in FCA compliance and Consumer Duty workflows">>

\* plannetic-pricing-analysis.py, lines 66-66
v1_pricing_headers ==
    <<"Tier",
      "Monthly Price",
      "Commitment",
      "2-Year TCV",
      "3-Year TCV",
      "Best For">>

\* plannetic-pricing-analysis.py, lines 74-79
v1_pricing_data ==
    <<<<Str("Monthly"), Num(350), Str("Month-to-month"), Str("=B18*24"), Str("=B18*36"), Str("Trial/uncertain firms")>>,
      <<Str("Standard"), Num(250), Str("2-year"), Str("=B19*24"), Str("=B19*36"), Str("Solo advisors, small firms")>>,
      <<Str("Professional"), Num(300), Str("2-year"), Str("=B20*24"), Str("=B20*36"), Str("Growing firms, AI + support")>>,
      <<Str("Enterprise"), Str("Custom"), Str("3-year"), Str("Custom"), Str("Custom"), Str("5+ advisors, white-label")>>>>

\* plannetic-pricing-analysis.py, lines 96-103
v1_metrics ==
    <<<<Str("Metric"), Str("Value")>>,
      <<Str("Competitor Stack Cost"), Str("{GBP}420/mo")>>,
      <<Str("Plannetic Standard"), Str("{GBP}250/mo")>>,
      <<Str("Monthly Savings"), Str("{GBP}170/mo")>>,
      <<Str("Annual Savings"), Str("{GBP}2,040/yr")>>,
      <<Str("Break-even Clients"), Str("3-6 clients")>>>>

\* plannetic-pricing-analysis.py, lines 157-157
v1_calc_headers ==
    <<"# of Firms",
      "{GBP}250/mo (2yr)",
      "{GBP}300/mo (2yr)",
      "{GBP}250/mo (3yr)",
      "{GBP}300/mo (3yr)",
      "3yr Difference",
      "Avg MRR">>

\* plannetic-pricing-analysis.py, lines 165-165
v1_firm_counts ==
    <<1, 2, 3, 4, 5, 10, 15, 20, 25, 50, 75, 100, 150, 200, 250, 300>>

\* plannetic-pricing-analysis.py, lines 239-239
v1_growth_headers ==
    <<"Year",
      "New Firms",
      "Churn",
      "Total Firms",
      "MRR",
      "ARR">>

\* plannetic-pricing-analysis.py, lines 307-307
v1_moderate_new ==
    <<25, 35, 45, 60, 75>>

\* plannetic-pricing-analysis.py, lines 340-340
v1_aggressive_new ==
    <<50, 70, 100, 130, 150>>

\* plannetic-pricing-analysis.py, lines 377-377
v1_comp_headers ==
    <<"Competitor",
      "Monthly Price",
      "What They Offer",
      "Plannetic Equivalent",
      "Our Advantage">>

\* plannetic-pricing-analysis.py, lines 385-394
v1_competitors ==
    <<<<Str("Intelliflo Office"), Str("{GBP}200-400"), Str("Back office, limited planning"), Str("Full platform"), Str("More features, lower price")>>,
      <<Str("Voyant"), Str("{GBP}150"), Str("Cash flow only"), Str("Cash Flow module"), Str("Includes CRM + compliance")>>,
      <<Str("Timeline"), Str("{GBP}100"), Str("Monte Carlo only"), Str("Monte Carlo module"), Str("Full assessment suite")>>,
      <<Str("CashCalc"), Str("{GBP}80"), Str("Cash flow only"), Str("Cash Flow module"), Str("Integrated compliance")>>,
      <<Str("Salesforce"), Str("{GBP}150+"), Str("Generic CRM"), Str("Client Hub"), Str("IFA-specific features")>>,
      <<Str("Dynamic Planner"), Str("{GBP}200+"), Str("Risk profiling + reports"), Str("ATR/CFL + Docs"), Str("Consumer Duty built-in")>>,
      <<Str("FE Analytics"), Str("{GBP}100+"), Str("Fund analysis"), Str("N/A"), Str("Different focus")>>,
      <<Str("Defaqto Engage"), Str("{GBP}150+"), Str("Research + suitability"), Str("Suitability module"), Str("Full workflow")>>>>

\* plannetic-pricing-analysis.py, lines 408-408
v1_stack_headers ==
    <<"Tool Category", "Standalone Cost", "Plannetic", "Savings">>

\* plannetic-pricing-analysis.py, lines 416-425
v1_stack_data ==
    <<<<Str("CRM"), Num(50), Str("Included"), Str("=B19")>>,
      <<Str("Risk Profiling"), Num(50), Str("Included"), Str("=B20")>>,
      <<Str("Cash Flow"), Num(100), Str("Included"), Str("=B21")>>,
      <<Str("Monte Carlo"), Num(100), Str("Included"), Str("=B22")>>,
      <<Str("Document Generation"), Num(50), Str("Included"), Str("=B23")>>,
      <<Str("E-Signatures"), Num(20), Str("Included"), Str("=B24")>>,
      <<Str("Compliance Tracking"), Num(50), Str("Included"), Str("=B25")>>,
      <<Str("TOTAL"), Str("=SUM(B19:B25)"), Str("{GBP}250/mo"), Str("=B26-250")>>>>

\* plannetic-pricing-analysis.py, lines 454-454
v1_tier_headers ==
    <<"Feature", "Standard ({GBP}250/mo)", "Professional ({GBP}300/mo)", "Enterprise (Custom)">>

\* plannetic-pricing-analysis.py, lines 462-484
v1_features ==
    <<<<Str("Client Management"), Str("{v}"), Str("{v}"), Str("{v}")>>,
      <<Str("All 6 Assessment Types"), Str("{v}"), Str("{v}"), Str("{v}")>>,
      <<Str("Unlimited Clients"), Str("{v}"), Str("{v}"), Str("{v}")>>,
      <<Str("Document Generation"), Str("{v}"), Str("{v}"), Str("{v}")>>,
      <<Str("E-Signatures"), Str("Fair Use"), Str("Unlimited"), Str("Unlimited")>>,
      <<Str("Compliance Registers"), Str("{v}"), Str("{v}"), Str("{v}")>>,
      <<Str("Consumer Duty Workflows"), Str("{v}"), Str("{v}"), Str("{v}")>>,
      <<Str("AI Enhancement"), Str("{--}"), Str("{v}"), Str("{v}")>>,
      <<Str("Priority Support"), Str("{--}"), Str("{v}"), Str("{v}")>>,
      <<Str("Phone Support"), Str("{--}"), Str("{v}"), Str("{v}")>>,
      <<Str("White-label Portal"), Str("{--}"), Str("{v}"), Str("{v}")>>,
      <<Str("Advanced Analytics"), Str("{--}"), Str("{v}"), Str("{v}")>>,
      <<Str("API Access"), Str("{--}"), Str("{--}"), Str("{v}")>>,
      <<Str("Custom Integrations"), Str("{--}"), Str("{--}"), Str("{v}")>>,
      <<Str("Dedicated Account Manager"), Str("{--}"), Str("{--}"), Str("{v}")>>,
      <<Str("Data Migration Support"), Str("Self-serve"), Str("Assisted"), Str("Full Service")>>,
      <<Str("Onboarding"), Str("2 calls"), Str("4 calls"), Str("Unlimited")>>,
      <<Str(""), Str(""), Str(""), Str("")>>,
      <<Str("Commitment"), Str("2 years"), Str("2 years"), Str("3 years")>>,
      <<Str("2-Year TCV"), Str("=250*24"), Str("=300*24"), Str("Custom")>>,
      <<Str("3-Year TCV"), Str("=250*36"), Str("=300*36"), Str("Custom")>>>>

\* plannetic-pricing-analysis.py, lines 523-537
v1_inputs ==
    <<<<Str("Current CRM Cost ({GBP}/mo)"), Num(50)>>,
      <<Str("Current Risk Tool Cost ({GBP}/mo)"), Num(50)>>,
      <<Str("Current Cash Flow Tool ({GBP}/mo)"), Num(100)>>,
      <<Str("Current Monte Carlo Tool ({GBP}/mo)"), Num(100)>>,
      <<Str("Current Doc Gen Tool ({GBP}/mo)"), Num(50)>>,
      <<Str("Current E-Sign Cost ({GBP}/mo)"), Num(20)>>,
      <<Str("Current Compliance Tool ({GBP}/mo)"), Num(50)>>,
      <<Str(""), Str("")>>,
      <<Str("Hours per client onboarding"), Num(15)>>,
      <<Str("Hourly rate ({GBP})"), Num(100)>>,
      <<Str("New clients per month"), Num(4)>>,
      <<Str(""), Str("")>>,
      <<Str("Plannetic Monthly Cost ({GBP})"), Num(250)>>>>

\* plannetic-pricing-analysis.py, lines 551-565
v1_results ==
    <<<<Str("Current Total Monthly Cost"), Str("=SUM(B7:B13)")>>,
      <<Str("Monthly Software Savings"), Str("=B24-B19")>>,
      <<Str("Annual Software Savings"), Str("=B25*12")>>,
      <<Str(""), Str("")>>,
      <<Str("Time Saved per Client (hrs)"), Str("=B15*0.6")>>,
      <<Str("Value of Time Saved per Client"), Str("=B28*B16")>>,
      <<Str("Monthly Time Value Saved"), Str("=B29*B17")>>,
      <<Str("Annual Time Value Saved"), Str("=B30*12")>>,
      <<Str(""), Str("")>>,
      <<Str("Total Annual Savings"), Str("=B26+B31")>>,
      <<Str("Annual Plannetic Cost"), Str("=B19*12")>>,
      <<Str("Net Annual Benefit"), Str("=B33-B34")>>,
      <<Str("ROI %"), Str("=(B35/B34)*100")>>>>

(***************************************************************************)
(* plannetic-pricing-analysis.py                                           *)
(***************************************************************************)
\* lines 7-10: the imports, none of them guarded
v1_imports == <<OpImport, OpImport, OpImport, OpImport>>

\* lines 28-30
v1_header_fill == PatternFill("1E40AF")
v1_alt_fill == PatternFill("F3F4F6")
v1_highlight_fill == PatternFill("DCFCE7")
\* lines 141, 146, 151, 228, 233, 543
v1_input_fill == PatternFill("FEF3C7")

\* lines 87-90
v1_pricing_fill(row_idx, col_idx, value) ==
    IF row_idx % 2 = 0 THEN v1_alt_fill ELSE Keep
v1_pricing_format(row_idx, col_idx, value) ==
    IF /\ col_idx \in {2, 4, 5}
       /\ (IsInt(value) \/ IsStr(value))
       /\ (IsInt(value) \/ StartsWith(value.s, "="))
    THEN GBP ELSE Keep

\* lines 108-114
v1_metrics_fill(row_idx, col_idx, value) ==
    IF row_idx = 26 THEN v1_header_fill
    ELSE IF row_idx % 2 = 1 THEN v1_alt_fill ELSE Keep

\* lines 13-123: sheet 1, Executive Summary
v1_summary ==
    <<OpWorkbook, OpTitle(1, "Executive Summary")>>
    \o Label(1, "A1", "PLANNETIC PRICING ANALYSIS")
    \o <<OpMerge(1, "A1:F1")>>
    \o Label(1, "A3", "Executive Summary")
    \o ForEach(v1_summary_text, LAMBDA k, text : Label(1, CoordOf("A", 5 + k - 1), text))
    \o Label(1, "A15", "Recommended Pricing Tiers")
    \o write_headers(1, 17, 1, v1_pricing_headers, v1_header_fill)
    \o write_rows(1, 18, v1_pricing_data, v1_pricing_fill, v1_pricing_format)
    \o Label(1, "A24", "Key Metrics")
    \o write_rows(1, 26, v1_metrics, v1_metrics_fill, NoFormat)
    \o <<OpWidth(1, "A", 25), OpWidth(1, "B", 15), OpWidth(1, "C", 18),
         OpWidth(1, "D", 15), OpWidth(1, "E", 15), OpWidth(1, "F", 28)>>

\* ws[a] = v; ws[a].number_format = fmt; ws[a].fill = PatternFill('FEF3C7')
v1_input_cell(sh, a, v, fmt) ==
    <<OpAt(sh, a, v, Keep, Keep), OpAt(sh, a, KeepValue, Keep, fmt),
      OpAt(sh, a, KeepValue, v1_input_fill, Keep)>>

\* lines 166-206: one row of the revenue table per firm count
v1_firm_rows ==
    ForEach(v1_firm_counts, LAMBDA k, firms :
        LET row_idx == 13 + k - 1
            r == ToString(row_idx)
        IN  <<OpCell(2, row_idx, 1, Num(firms), Keep, Keep),
              OpCell(2, row_idx, 2, Str("=A" \o r \o "*$B$5*24"), Keep, GBP),
              OpCell(2, row_idx, 3, Str("=A" \o r \o "*$B$6*24"), Keep, GBP),
              OpCell(2, row_idx, 4, Str("=A" \o r \o "*$B$5*36"), Keep, GBP),
              OpCell(2, row_idx, 5, Str("=A" \o r \o "*$B$6*36"), Keep, GBP),
              OpCell(2, row_idx, 6, Str("=E" \o r \o "-B" \o r), v1_highlight_fill, GBP),
              OpCell(2, row_idx, 7, Str("=A" \o r \o "*($B$5+$B$6)/2"), Keep, GBP)>>
            \o (IF row_idx % 2 = 0
                THEN ForRange(1, 6, LAMBDA c : <<OpFillIfDefault(2, row_idx, c, v1_alt_fill)>>)
                ELSE <<>>))

\* lines 128-210: sheet 2, Revenue Calculator
v1_calc ==
    <<OpCreateSheet("Revenue Calculator")>>
    \o Label(2, "A1", "REVENUE CALCULATOR")
    \o <<OpMerge(2, "A1:G1")>>
    \o Label(2, "A3", "INPUT PARAMETERS")
    \o <<OpAt(2, "A5", Str("Standard Monthly Rate ({GBP})"), Keep, Keep)>>
    \o v1_input_cell(2, "B5", Num(250), GBP)
    \o <<OpAt(2, "A6", Str("Professional Monthly Rate ({GBP})"), Keep, Keep)>>
    \o v1_input_cell(2, "B6", Num(300), GBP)
    \o <<OpAt(2, "A7", Str("Monthly Rate (no commitment) ({GBP})"), Keep, Keep)>>
    \o v1_input_cell(2, "B7", Num(350), GBP)
    \o Label(2, "A10", "REVENUE BY NUMBER OF FIRMS")
    \o write_headers(2, 12, 1, v1_calc_headers, v1_header_fill)
    \o v1_firm_rows
    \o ForRange(1, 7, LAMBDA col : <<OpWidth(2, get_column_letter(col), 18)>>)

\* lines 248-285: the conservative scenario, written cell by cell
v1_conservative ==
    <<OpAt(3, "A12", Num(1), Keep, Keep),
      OpAt(3, "B12", Num(10), Keep, Keep),
      OpAt(3, "C12", Num(0), Keep, Keep),
      OpAt(3, "D12", Str("=B12-C12"), Keep, Keep),
      OpAt(3, "E12", Str("=D12*$B$5"), Keep, Keep),
      OpAt(3, "F12", Str("=E12*12"), Keep, Keep),
      OpAt(3, "A13", Num(2), Keep, Keep),
      OpAt(3, "B13", Num(10), Keep, Keep),
      OpAt(3, "C13", Str("=ROUND(D12*$B$6/100,0)"), Keep, Keep),
      OpAt(3, "D13", Str("=D12+B13-C13"), Keep, Keep),
      OpAt(3, "E13", Str("=D13*$B$5"), Keep, Keep),
      OpAt(3, "F13", Str("=E13*12"), Keep, Keep),
      OpAt(3, "A14", Num(3), Keep, Keep),
      OpAt(3, "B14", Num(15), Keep, Keep),
      OpAt(3, "C14", Str("=ROUND(D13*$B$6/100,0)"), Keep, Keep),
      OpAt(3, "D14", Str("=D13+B14-C14"), Keep, Keep),
      OpAt(3, "E14", Str("=D14*$B$5"), Keep, Keep),
      OpAt(3, "F14", Str("=E14*12"), Keep, Keep),
      OpAt(3, "A15", Num(4), Keep, Keep),
      OpAt(3, "B15", Num(20), Keep, Keep),
      OpAt(3, "C15", Str("=ROUND(D14*$B$6/100,0)"), Keep, Keep),
      OpAt(3, "D15", Str("=D14+B15-C15"), Keep, Keep),
      OpAt(3, "E15", Str("=D15*$B$5"), Keep, Keep),
      OpAt(3, "F15", Str("=E15*12"), Keep, Keep),
      OpAt(3, "A16", Num(5), Keep, Keep),
      OpAt(3, "B16", Num(25), Keep, Keep),
      OpAt(3, "C16", Str("=ROUND(D15*$B$6/100,0)"), Keep, Keep),
      OpAt(3, "D16", Str("=D15+B16-C16"), Keep, Keep),
      OpAt(3, "E16", Str("=D16*$B$5"), Keep, Keep),
      OpAt(3, "F16", Str("=E16*12"), Keep, Keep)>>

\* lines 287-293 (321-326, 354-359): border, alignment and the currency format
v1_growth_style(row) ==
    ForRange(1, 6, LAMBDA col :
        <<OpCell(3, row, col, None, Keep, IF col >= 5 THEN GBP ELSE Keep)>>)

\* lines 308-326 (341-359 is the same loop over the aggressive numbers): the
\* rows of one scenario, the first at `first'
v1_scenario_rows(first, new) ==
    ForEach(new, LAMBDA k, new_firms :
        LET i == k - 1
            row == first + i
            r == ToString(row)
            p == ToString(row - 1)
        IN  <<OpCell(3, row, 1, Num(i + 1), Keep, Keep),
              OpCell(3, row, 2, Num(new_firms), Keep, Keep)>>
            \o (IF i = 0
                THEN <<OpCell(3, row, 3, Num(0), Keep, Keep),
                       OpCell(3, row, 4, Str("=B" \o r \o "-C" \o r), Keep, Keep)>>
                ELSE <<OpCell(3, row, 3, Str("=ROUND(D" \o p \o "*$B$6/100,0)"), Keep, Keep),
                       OpCell(3, row, 4, Str("=D" \o p \o "+B" \o r \o "-C" \o r), Keep, Keep)>>)
            \o <<OpCell(3, row, 5, Str("=D" \o r \o "*$B$5"), Keep, Keep),
                 OpCell(3, row, 6, Str("=E" \o r \o "*12"), Keep, Keep)>>
            \o v1_growth_style(row))

\* lines 215-363: sheet 3, Growth Projections
v1_growth ==
    <<OpCreateSheet("Growth Projections")>>
    \o Label(3, "A1", "GROWTH PROJECTIONS")
    \o <<OpMerge(3, "A1:F1")>>
    \o Label(3, "A3", "SCENARIO INPUTS")
    \o <<OpAt(3, "A5", Str("Monthly Rate ({GBP})"), Keep, Keep)>>
    \o v1_input_cell(3, "B5", Num(250), GBP)
    \o <<OpAt(3, "A6", Str("Churn Rate (%)"), Keep, Keep)>>
    \o v1_input_cell(3, "B6", Num(5), "0%")
    \o Label(3, "A9", "CONSERVATIVE GROWTH (10 new firms/year)")
    \o write_headers(3, 11, 1, v1_growth_headers, v1_header_fill)
    \o v1_conservative
    \o ForRange(12, 16, v1_growth_style)
    \o Label(3, "A19", "MODERATE GROWTH (25 new firms/year)")
    \o write_headers(3, 21, 1, v1_growth_headers, v1_header_fill)
    \o v1_scenario_rows(22, v1_moderate_new)
    \o Label(3, "A29", "AGGRESSIVE GROWTH (50 new firms/year)")
    \o write_headers(3, 31, 1, v1_growth_headers, v1_header_fill)
    \o v1_scenario_rows(32, v1_aggressive_new)
    \o ForRange(1, 6, LAMBDA col : <<OpWidth(3, get_column_letter(col), 15)>>)

\* lines 401-402
v1_competitors_fill(row_idx, col_idx, value) ==
    IF row_idx % 2 = 0 THEN v1_alt_fill ELSE Keep

\* lines 432-436
v1_stack_fill(row_idx, col_idx, value) ==
    IF row_idx = 26 THEN v1_highlight_fill ELSE Keep
v1_stack_format(row_idx, col_idx, value) ==
    IF col_idx = 2 \/ col_idx = 4 THEN GBP ELSE Keep

\* lines 368-443: sheet 4, Competitive Analysis
v1_comp ==
    <<OpCreateSheet("Competitive Analysis")>>
    \o Label(4, "A1", "COMPETITIVE ANALYSIS")
    \o <<OpMerge(4, "A1:E1")>>
    \o Label(4, "A3", "UK IFA Software Market Comparison")
    \o write_headers(4, 5, 1, v1_comp_headers, v1_header_fill)
    \o write_rows(4, 6, v1_competitors, v1_competitors_fill, NoFormat)
    \o Label(4, "A16", "Typical IFA Tool Stack vs Plannetic")
    \o write_headers(4, 18, 1, v1_stack_headers, v1_header_fill)
    \o write_rows(4, 19, v1_stack_data, v1_stack_fill, v1_stack_format)
    \o <<OpWidth(4, "A", 22), OpWidth(4, "B", 15), OpWidth(4, "C", 25),
         OpWidth(4, "D", 22), OpWidth(4, "E", 25)>>

\* lines 492-499
v1_features_fill(row_idx, col_idx, value) ==
    IF row_idx % 2 = 0 THEN v1_alt_fill ELSE Keep
v1_features_format(row_idx, col_idx, value) ==
    IF row_idx \in {22, 23} /\ col_idx \in {2, 3} THEN GBP ELSE Keep

\* lines 448-505: sheet 5, Tier Comparison
v1_tiers ==
    <<OpCreateSheet("Tier Comparison")>>
    \o Label(5, "A1", "PLANNETIC PRICING TIERS")
    \o <<OpMerge(5, "A1:D1")>>
    \o write_headers(5, 3, 1, v1_tier_headers, v1_header_fill)
    \o write_rows(5, 4, v1_features, v1_features_fill, v1_features_format)
    \o <<OpWidth(5, "A", 25), OpWidth(5, "B", 22), OpWidth(5, "C", 22),
         OpWidth(5, "D", 22)>>

\* lines 539-545: the label, then the value unless it is ''
v1_input_rows ==
    ForEach(v1_inputs, LAMBDA k, pair :
        LET row_idx == 7 + k - 1
            label == pair[1]
            value == pair[2]
            styled == value # Str("") /\ Truthy(label)
        IN  <<OpCell(6, row_idx, 1, label, Keep, Keep),
              OpCell(6, row_idx, 2, IF value # Str("") THEN value ELSE None,
                     IF styled THEN v1_input_fill ELSE Keep,
                     IF styled
                     THEN (IF \/ Contains(label.s, "{GBP}")
                              \/ Contains(label.s, "Cost")
                              \/ Contains(label.s, "rate")
                           THEN GBP ELSE "0")
                     ELSE Keep)>>)

\* lines 567-578: the label, then the formula unless it is empty
v1_result_rows ==
    ForEach(v1_results, LAMBDA k, pair :
        LET row_idx == 24 + k - 1
            label == pair[1]
            formula == pair[2]
            styled == Truthy(formula) /\ Truthy(label)
        IN  <<OpCell(6, row_idx, 1, label, Keep, Keep),
              OpCell(6, row_idx, 2, IF Truthy(formula) THEN formula ELSE None,
                     IF styled /\ label \in {Str("Total Annual Savings"),
                                             Str("Net Annual Benefit"),
                                             Str("ROI %")}
                     THEN v1_highlight_fill ELSE Keep,
                     IF styled
                     THEN (IF Contains(label.s, "ROI") THEN "0.0\"%\"" ELSE GBP)
                     ELSE Keep)>>)

\* lines 510-582: sheet 6, ROI Calculator
v1_roi ==
    <<OpCreateSheet("ROI Calculator")>>
    \o Label(6, "A1", "CLIENT ROI CALCULATOR")
    \o <<OpMerge(6, "A1:D1")>>
    \o Label(6, "A3", "Calculate ROI for your clients")
    \o Label(6, "A5", "INPUTS (edit yellow cells)")
    \o v1_input_rows
    \o Label(6, "A22", "RESULTS")
    \o v1_result_rows
    \o <<OpWidth(6, "A", 35), OpWidth(6, "B", 18)>>

\* lines 585-587
v1_output_path ==
    "/Users/adeomosanya/Documents/ifa-professional-portal/ifa-platform/Plannetic-Pricing-Analysis.xlsx"
v1_save ==
    <<OpSave(v1_output_path),
      OpPrint("Excel file created successfully: " \o v1_output_path)>>

v1_program ==
    v1_imports \o v1_summary \o v1_calc \o v1_growth \o v1_comp \o v1_tiers
    \o v1_roi \o v1_save

\* create-pricing-excel-v2.py, lines 59-69
v2_summary_text ==
    <<"Plannetic is a comprehensive, compliance-focused financial advisory platform",
      "designed specifically for UK-regulated Independent Financial Advisors (IFAs).",
      "",
      "Key Value Proposition:",
      "{*} Replaces 5-7 separate tools with one integrated platform",
      "{*} Saves IFAs {GBP}280+/month vs competitor tool stack ({GBP}530 {->} {GBP}250)",
      "{*} Saves 10-20 hours per client onboarding",
      "{*} Built-in FCA compliance and Consumer Duty workflows",
      "{*} AI-enhanced assessments and form auto-population">>

\* create-pricing-excel-v2.py, lines 79-79
v2_pricing_headers ==
    <<"Tier",
      "Monthly",
      "Commitment",
      "2-Year TCV",
      "3-Year TCV",
      "Best For">>

\* a variation: the first row lacks its last value
v2_pricing_data_short ==
    <<<<Str("Monthly"), Num(350), Str("Month-to-month"), Str("=B20*24"), Str("=B20*36")>>,
      <<Str("Standard"), Num(250), Str("2-year"), Str("=B21*24"), Str("=B21*36"), Str("Solo advisors, small firms")>>>>

\* create-pricing-excel-v2.py, lines 87-92
v2_pricing_data ==
    <<<<Str("Monthly"), Num(350), Str("Month-to-month"), Str("=B20*24"), Str("=B20*36"), Str("Trial/uncertain firms")>>,
      <<Str("Standard"), Num(250), Str("2-year"), Str("=B21*24"), Str("=B21*36"), Str("Solo advisors, small firms")>>,
      <<Str("Professional"), Num(300), Str("2-year"), Str("=B22*24"), Str("=B22*36"), Str("Growing firms, AI + support")>>,
      <<Str("Enterprise"), Str("Custom"), Str("3-year"), Str("Custom"), Str("Custom"), Str("5+ advisors, white-label")>>>>

\* create-pricing-excel-v2.py, lines 111-118
v2_savings_data ==
    <<<<Str("Metric"), Str("Value"), Str("Notes")>>,
      <<Str("Competitor Stack Cost"), Num(530), Str("Verified Dec 2025 pricing")>>,
      <<Str("Plannetic Standard"), Num(250), Str("Full platform access")>>,
      <<Str("Monthly Savings"), Str("=B28-B29"), Str("Per month")>>,
      <<Str("Annual Savings"), Str("=B30*12"), Str("Per year")>>,
      <<Str("Savings %"), Str("=B30/B28"), Str("vs competitors")>>>>

\* create-pricing-excel-v2.py, lines 166-166
v2_comp_headers ==
    <<"Software",
      "Monthly Price",
      "Price Type",
      "What They Offer",
      "Source">>

\* create-pricing-excel-v2.py, lines 175-182
v2_competitors ==
    <<<<Str("Intelliflo Office"), Num(132), Str("Per user"), Str("Back office + cashflow"), Str("TrustRadius")>>,
      <<Str("Voyant AdviserGo"), Num(175), Str("Flat fee"), Str("Cash flow planning"), Str("voyant.com")>>,
      <<Str("Timeline"), Num(162), Str("Flat (+VAT)"), Str("Monte Carlo simulations"), Str("timeline.co")>>,
      <<Str("FE CashCalc"), Num(90), Str("Per adviser (+VAT)"), Str("Cash flow modelling"), Str("advisoryai.com")>>,
      <<Str("Dynamic Planner"), Num(200), Str("Estimated"), Str("Risk profiling + reports"), Str("Contact required")>>,
      <<Str("Plannetic Standard"), Num(250), Str("Flat fee"), Str("ALL-IN-ONE PLATFORM"), Str("Your price")>>>>

\* create-pricing-excel-v2.py, lines 223-223
v2_stack_headers ==
    <<"Tool Category", "Standalone Cost", "Plannetic", "Savings">>

\* create-pricing-excel-v2.py, lines 231-239
v2_stack_data ==
    <<<<Str("CRM (generic)"), Num(50), Str("Included"), Str("=B35")>>,
      <<Str("Risk Profiling"), Num(50), Str("Included"), Str("=B36")>>,
      <<Str("Cash Flow (Voyant)"), Num(175), Str("Included"), Str("=B37")>>,
      <<Str("Monte Carlo (Timeline)"), Num(162), Str("Included"), Str("=B38")>>,
      <<Str("Document Generation"), Num(50), Str("Included"), Str("=B39")>>,
      <<Str("E-Signatures"), Num(23), Str("Included"), Str("=B40")>>,
      <<Str("Compliance Tracking"), Num(50), Str("Included"), Str("=B41")>>>>

\* create-pricing-excel-v2.py, lines 284-289
v2_sources ==
    <<"{*} Voyant: planwithvoyant.com/uk/pricing", "{*} Timeline: timeline.co ({GBP}135+VAT = {GBP}162)", "{*} CashCalc: advisoryai.com ({GBP}75+VAT = {GBP}90)", "{*} Intelliflo: trustradius.com ({GBP}130-135/user)">>

\* create-pricing-excel-v2.py, lines 336-336
v2_calc_headers ==
    <<"# Firms",
      "{GBP}250/mo (2yr)",
      "{GBP}300/mo (2yr)",
      "{GBP}250/mo (3yr)",
      "{GBP}300/mo (3yr)",
      "Difference",
      "Avg MRR">>

\* create-pricing-excel-v2.py, lines 344-344
v2_firm_counts ==
    <<1, 2, 3, 4, 5, 10, 15, 20, 25, 50, 75, 100, 150, 200, 250, 300>>

\* create-pricing-excel-v2.py, lines 418-418
v2_growth_headers ==
    <<"Year",
      "New Firms",
      "Churn",
      "Total Firms",
      "MRR",
      "ARR">>

\* create-pricing-excel-v2.py, lines 426-426
v2_conservative_new ==
    <<10, 10, 15, 20, 25>>

\* create-pricing-excel-v2.py, lines 455-455
v2_moderate_new ==
    <<25, 35, 45, 60, 75>>

\* create-pricing-excel-v2.py, lines 484-484
v2_aggressive_new ==
    <<50, 70, 100, 130, 150>>

\* create-pricing-excel-v2.py, lines 506-506
v2_chart_headers ==
    <<"Year", "Conservative", "Moderate", "Aggressive">>

\* create-pricing-excel-v2.py, lines 560-569
v2_inputs ==
    <<<<Str("Tool"), Str("Monthly Cost"), Str("Notes")>>,
      <<Str("CRM (generic)"), Num(50), Str("Salesforce/HubSpot equivalent")>>,
      <<Str("Risk Profiling Tool"), Num(50), Str("Dynamic Planner element")>>,
      <<Str("Cash Flow (Voyant)"), Num(175), Str("Verified Dec 2025")>>,
      <<Str("Monte Carlo (Timeline)"), Num(162), Str("Verified Dec 2025 ({GBP}135+VAT)")>>,
      <<Str("Document Generation"), Num(50), Str("Word templates/Templafy")>>,
      <<Str("E-Signatures"), Num(23), Str("DocuSign/Adobe Sign")>>,
      <<Str("Compliance Tracking"), Num(50), Str("Manual/specialist tool")>>>>

\* create-pricing-excel-v2.py, lines 599-605
v2_time_inputs ==
    <<<<Str("Metric"), Str("Value"), Str("Notes")>>,
      <<Str("Hours per client onboarding (current)"), Num(15), Str("Manual process")>>,
      <<Str("Time saved with Plannetic (%)"), Flt(6, 10), Str("60% automation")>>,
      <<Str("Your hourly rate ({GBP})"), Num(100), Str("Advisor charge-out rate")>>,
      <<Str("New clients per month"), Num(4), Str("Average new clients")>>>>

\* create-pricing-excel-v2.py, lines 638-650
v2_results ==
    <<<<Str("Metric"), Str("Monthly"), Str("Annual"), Str("Formula")>>,
      <<Str("Software Savings"), Str("=B14-B28"), Str("=B33*12"), Str("Current tools - Plannetic")>>,
      <<Str("Hours Saved per Client"), Str("=B20*B21"), Str("=B34*12"), Str("Hours {x} automation %")>>,
      <<Str("Clients per Month"), Str("=B23"), Str("=B35*12"), Str("From inputs")>>,
      <<Str("Total Hours Saved"), Str("=B34*B35"), Str("=B36*12"), Str("Hours {x} clients")>>,
      <<Str("Value of Time Saved"), Str("=B36*B22"), Str("=B37*12"), Str("Hours {x} rate")>>,
      <<Str(""), Str(""), Str(""), Str("")>>,
      <<Str("TOTAL MONTHLY BENEFIT"), Str("=B33+B37"), Str("=B39*12"), Str("Software + time savings")>>,
      <<Str("Plannetic Cost"), Str("=B28"), Str("=B28*12"), Str("Your subscription")>>,
      <<Str("NET BENEFIT"), Str("=B39-B40"), Str("=B41*12"), Str("Benefit - cost")>>,
      <<Str("ROI %"), Str("=B41/B40*100"), Str("=C41/C40*100"), Str("(Benefit-Cost)/Cost")>>>>

\* create-pricing-excel-v2.py, lines 715-715
v2_tier_headers ==
    <<"Feature", "Standard {GBP}250/mo", "Professional {GBP}300/mo", "Enterprise (Custom)">>

\* create-pricing-excel-v2.py, lines 723-751
v2_features ==
    <<<<Str("CORE FEATURES"), Str(""), Str(""), Str("")>>,
      <<Str("Client Management Hub"), Str("{v}"), Str("{v}"), Str("{v}")>>,
      <<Str("All 6 Assessment Types"), Str("{v}"), Str("{v}"), Str("{v}")>>,
      <<Str("Unlimited Clients"), Str("{v}"), Str("{v}"), Str("{v}")>>,
      <<Str("Document Generation"), Str("{v}"), Str("{v}"), Str("{v}")>>,
      <<Str("E-Signatures"), Str("Fair Use"), Str("Unlimited"), Str("Unlimited")>>,
      <<Str("FCA Compliance Registers"), Str("{v}"), Str("{v}"), Str("{v}")>>,
      <<Str("Consumer Duty Workflows"), Str("{v}"), Str("{v}"), Str("{v}")>>,
      <<Str(""), Str(""), Str(""), Str("")>>,
      <<Str("PREMIUM FEATURES"), Str(""), Str(""), Str("")>>,
      <<Str("AI Enhancement"), Str("{--}"), Str("{v}"), Str("{v}")>>,
      <<Str("Priority Support (4hr SLA)"), Str("{--}"), Str("{v}"), Str("{v}")>>,
      <<Str("Phone Support"), Str("{--}"), Str("{v}"), Str("{v}")>>,
      <<Str("White-label Client Portal"), Str("{--}"), Str("{v}"), Str("{v}")>>,
      <<Str("Advanced Analytics"), Str("{--}"), Str("{v}"), Str("{v}")>>,
      <<Str("API Access"), Str("{--}"), Str("{--}"), Str("{v}")>>,
      <<Str("Custom Integrations"), Str("{--}"), Str("{--}"), Str("{v}")>>,
      <<Str("Dedicated Account Manager"), Str("{--}"), Str("{--}"), Str("{v}")>>,
      <<Str(""), Str(""), Str(""), Str("")>>,
      <<Str("ONBOARDING"), Str(""), Str(""), Str("")>>,
      <<Str("Data Migration"), Str("Self-serve"), Str("Assisted"), Str("Full Service")>>,
      <<Str("Training Sessions"), Str("2 calls"), Str("4 calls"), Str("Unlimited")>>,
      <<Str(""), Str(""), Str(""), Str("")>>,
      <<Str("CONTRACT"), Str(""), Str(""), Str("")>>,
      <<Str("Minimum Commitment"), Str("2 years"), Str("2 years"), Str("3 years")>>,
      <<Str("2-Year TCV"), Str("=250*24"), Str("=300*24"), Str("Custom")>>,
      <<Str("3-Year TCV"), Str("=250*36"), Str("=300*36"), Str("Custom")>>>>

(***************************************************************************)
(* create-pricing-excel-v2.py                                              *)
(***************************************************************************)
\* lines 7-13: the imports, none of them guarded
v2_imports == <<OpImport, OpImport, OpImport, OpImport, OpImport, OpImport, OpImport>>

\* lines 29-34
v2_header_fill == PatternFill("1E40AF")
v2_alt_fill == PatternFill("F3F4F6")
v2_highlight_fill == PatternFill("DCFCE7")
v2_input_fill == PatternFill("FEF3C7")
v2_blue_fill == PatternFill("DBEAFE")

\* lines 100-105
v2_pricing_fill(row_idx, col_idx, value) ==
    IF row_idx % 2 = 1 THEN v2_alt_fill ELSE Keep
v2_pricing_format(row_idx, col_idx, value) ==
    Then(IF col_idx = 2 /\ IsInt(value) THEN GBP ELSE Keep,
         IF col_idx \in {4, 5} /\ IsStr(value) /\ StartsWith(value.s, "=")
         THEN GBP ELSE Keep)

\* lines 123-135
v2_savings_fill(row_idx, col_idx, value) ==
    IF row_idx = 28 THEN v2_header_fill
    ELSE IF row_idx % 2 = 0 THEN v2_alt_fill ELSE Keep
v2_savings_format(row_idx, col_idx, value) ==
    IF col_idx = 2 /\ row_idx > 28
    THEN (IF row_idx = 33 THEN "0.0%" ELSE GBP)
    ELSE Keep

\* lines 16, 46-148: sheet 1, Summary
v2_summary ==
    <<OpWorkbook, OpTitle(1, "Summary")>>
    \o Label(1, "A1", "PLANNETIC PRICING ANALYSIS")
    \o <<OpMerge(1, "A1:F1")>>
    \o Label(1, "A2", "Verified December 2025")
    \o Label(1, "A4", "What is Plannetic?")
    \o ForEach(v2_summary_text, LAMBDA i, text : Label(1, CoordOf("A", 6 + i - 1), text))
    \o Label(1, "A17", "Recommended Pricing Tiers")
    \o write_headers(1, 19, 1, v2_pricing_headers, v2_header_fill)
    \o write_rows(1, 20, v2_pricing_data, v2_pricing_fill, v2_pricing_format)
    \o Label(1, "A26", "Monthly Savings Analysis")
    \o write_rows(1, 28, v2_savings_data, v2_savings_fill, v2_savings_format)
    \o <<OpAt(1, "A32", KeepValue, v2_highlight_fill, Keep),
         OpAt(1, "B32", KeepValue, v2_highlight_fill, Keep),
         OpAt(1, "C32", KeepValue, v2_highlight_fill, Keep),
         OpWidth(1, "A", 25), OpWidth(1, "B", 15), OpWidth(1, "C", 22),
         OpWidth(1, "D", 15), OpWidth(1, "E", 15), OpWidth(1, "F", 28)>>

\* lines 189-195
v2_competitors_fill(row_idx, col_idx, value) ==
    IF row_idx = 12 THEN v2_highlight_fill
    ELSE IF row_idx % 2 = 0 THEN v2_alt_fill ELSE Keep
v2_competitors_format(row_idx, col_idx, value) ==
    IF col_idx = 2 THEN GBP ELSE Keep

\* lines 246-247
v2_stack_format(row_idx, col_idx, value) ==
    IF col_idx \in {2, 4} THEN GBP ELSE Keep

\* a variation: the categories start in the header row, like the data
v2_chart1_header_cats ==
    set_categories(
        add_data(NewChart("bar"), Reference(2, 2, 6, 0, 12), TRUE),
        Reference(2, 1, 6, 0, 12))

\* lines 198-215: the bar chart of the competitor prices
v2_chart1 ==
    set_categories(
        add_data(NewChart("bar"), Reference(2, 2, 6, 0, 12), TRUE),
        Reference(2, 1, 7, 0, 12))

\* lines 264-277: the pie chart of the tool stack
v2_chart2 ==
    set_categories(
        add_data(NewChart("pie"), Reference(2, 2, 35, 0, 41), FALSE),
        Reference(2, 1, 35, 0, 41))

\* lines 153-299: sheet 2, Competitor Pricing
v2_comp ==
    <<OpCreateSheet("Competitor Pricing")>>
    \o Label(2, "A1", "COMPETITOR PRICING ANALYSIS")
    \o <<OpMerge(2, "A1:E1")>>
    \o Label(2, "A2", "Verified December 2025 - Sources linked below")
    \o Label(2, "A4", "UK IFA Software Market - Verified Pricing")
    \o write_headers(2, 6, 1, v2_comp_headers, v2_header_fill)
    \o write_rows(2, 7, v2_competitors, v2_competitors_fill, v2_competitors_format)
    \o <<OpChart(2, v2_chart1, "A15")>>
    \o Label(2, "A32", "Typical IFA Tool Stack vs Plannetic")
    \o write_headers(2, 34, 1, v2_stack_headers, v2_header_fill)
    \o write_rows(2, 35, v2_stack_data, NoFill, v2_stack_format)
    \o <<OpAt(2, "A42", Str("TOTAL"), Keep, Keep),
         OpAt(2, "B42", Str("=SUM(B35:B41)"), Keep, Keep),
         OpAt(2, "C42", Str("{GBP}250/mo"), Keep, Keep),
         OpAt(2, "D42", Str("=B42-250"), Keep, Keep)>>
    \o ForRange(1, 4, LAMBDA col :
         <<OpCell(2, 42, col, None, v2_highlight_fill,
                  IF col \in {2, 4} THEN GBP ELSE Keep)>>)
    \o <<OpChart(2, v2_chart2, "F32")>>
    \o Label(2, "A45", "Sources:")
    \o ForEach(v2_sources, LAMBDA i, source : Label(2, CoordOf("A", 46 + i - 1), source))
    \o <<OpWidth(2, "A", 22), OpWidth(2, "B", 15), OpWidth(2, "C", 18),
         OpWidth(2, "D", 12), OpWidth(2, "E", 18)>>

\* ws[a] = v; ws[a].number_format = fmt; ws[a].fill = fill; ws[a].border = ...
v2_input_cell(sh, a, v, fmt) ==
    <<OpAt(sh, a, v, Keep, Keep), OpAt(sh, a, KeepValue, Keep, fmt),
      OpAt(sh, a, KeepValue, v2_input_fill, Keep), Access(sh, a)>>

\* a variation: the first contract value spells the price
v2_firm_rows_literal_price ==
    ForEach(v2_firm_counts, LAMBDA i, firms :
        LET row_idx == 13 + i - 1
            r == ToString(row_idx)
        IN  <<OpCell(3, row_idx, 1, Num(firms), Keep, Keep),
              OpCell(3, row_idx, 2, Str("=A" \o r \o "*250*24"), Keep, GBP),
              OpCell(3, row_idx, 3, Str("=A" \o r \o "*$B$6*24"), Keep, GBP),
              OpCell(3, row_idx, 4, Str("=A" \o r \o "*$B$5*36"), Keep, GBP),
              OpCell(3, row_idx, 5, Str("=A" \o r \o "*$B$6*36"), Keep, GBP),
              OpCell(3, row_idx, 6, Str("=E" \o r \o "-B" \o r), v2_highlight_fill, GBP),
              OpCell(3, row_idx, 7, Str("=A" \o r \o "*($B$5+$B$6)/2"), Keep, GBP)>>)

\* lines 345-383: one row of the revenue table per firm count
v2_firm_rows ==
    ForEach(v2_firm_counts, LAMBDA i, firms :
        LET row_idx == 13 + i - 1
            r == ToString(row_idx)
        IN  <<OpCell(3, row_idx, 1, Num(firms), Keep, Keep),
              OpCell(3, row_idx, 1, None, Keep, Keep),
              OpCell(3, row_idx, 2, Str("=A" \o r \o "*$B$5*24"), Keep, GBP),
              OpCell(3, row_idx, 3, Str("=A" \o r \o "*$B$6*24"), Keep, GBP),
              OpCell(3, row_idx, 4, Str("=A" \o r \o "*$B$5*36"), Keep, GBP),
              OpCell(3, row_idx, 5, Str("=A" \o r \o "*$B$6*36"), Keep, GBP),
              OpCell(3, row_idx, 6, Str("=E" \o r \o "-B" \o r), v2_highlight_fill, GBP),
              OpCell(3, row_idx, 7, Str("=A" \o r \o "*($B$5+$B$6)/2"), Keep, GBP)>>
            \o (IF row_idx % 2 = 0
                THEN ForRange(1, 5, LAMBDA c : <<OpFillIfDefault(3, row_idx, c, v2_alt_fill)>>)
                ELSE <<>>))

\* lines 304-387: sheet 3, Revenue Calculator
v2_calc ==
    <<OpCreateSheet("Revenue Calculator")>>
    \o Label(3, "A1", "REVENUE CALCULATOR")
    \o <<OpMerge(3, "A1:G1")>>
    \o Label(3, "A3", "INPUT PARAMETERS (Edit yellow cells)")
    \o <<OpAt(3, "A5", Str("Standard Monthly Rate ({GBP})"), Keep, Keep)>>
    \o v2_input_cell(3, "B5", Num(250), GBP)
    \o <<OpAt(3, "A6", Str("Professional Monthly Rate ({GBP})"), Keep, Keep)>>
    \o v2_input_cell(3, "B6", Num(300), GBP)
    \o <<OpAt(3, "A7", Str("Monthly Rate (no commitment) ({GBP})"), Keep, Keep)>>
    \o v2_input_cell(3, "B7", Num(350), GBP)
    \o Label(3, "A10", "REVENUE BY NUMBER OF FIRMS")
    \o write_headers(3, 12, 1, v2_calc_headers, v2_header_fill)
    \o v2_firm_rows
    \o ForRange(1, 7, LAMBDA col : <<OpWidth(3, get_column_letter(col), 16)>>)

\* lines 427-442 (455-471 and 484-500 are the same loop over the moderate
\* and the aggressive numbers): the rows of one scenario, the first at `first'
v2_scenario_rows(first, new) ==
    ForEach(new, LAMBDA k, new_firms :
        LET i == k - 1
            row == first + i
            r == ToString(row)
            p == ToString(row - 1)
        IN  <<OpCell(4, row, 1, Num(i + 1), Keep, Keep),
              OpCell(4, row, 2, Num(new_firms), Keep, Keep)>>
            \o (IF i = 0
                THEN <<OpCell(4, row, 3, Num(0), Keep, Keep),
                       OpCell(4, row, 4, Str("=B" \o r), Keep, Keep)>>
                ELSE <<OpCell(4, row, 3, Str("=ROUND(D" \o p \o "*$B$6,0)"), Keep, Keep),
                       OpCell(4, row, 4, Str("=D" \o p \o "+B" \o r \o "-C" \o r), Keep, Keep)>>)
            \o <<OpCell(4, row, 5, Str("=D" \o r \o "*$B$5"), Keep, Keep),
                 OpCell(4, row, 5, None, Keep, GBP),
                 OpCell(4, row, 6, Str("=E" \o r \o "*12"), Keep, Keep),
                 OpCell(4, row, 6, None, Keep, GBP)>>
            \o ForRange(1, 6, LAMBDA col : <<OpCell(4, row, col, None, Keep, Keep)>>))

\* a variation: the offsets are those of the header rows
v2_arr_rows_from_headers ==
    ForRange(0, 4, LAMBDA i :
        LET row == 5 + i
        IN  <<OpCell(4, row, 8, Num(i + 1), Keep, Keep),
              OpCell(4, row, 9, Str("=F" \o ToString(10 + i)), Keep, Keep),
              OpCell(4, row, 9, None, Keep, GBP),
              OpCell(4, row, 10, Str("=F" \o ToString(19 + i)), Keep, Keep),
              OpCell(4, row, 10, None, Keep, GBP),
              OpCell(4, row, 11, Str("=F" \o ToString(28 + i)), Keep, Keep),
              OpCell(4, row, 11, None, Keep, GBP)>>)

\* lines 513-521: the ARR comparison table
v2_arr_rows ==
    ForRange(0, 4, LAMBDA i :
        LET row == 5 + i
        IN  <<OpCell(4, row, 8, Num(i + 1), Keep, Keep),
              OpCell(4, row, 9, Str("=F" \o ToString(11 + i)), Keep, Keep),
              OpCell(4, row, 9, None, Keep, GBP),
              OpCell(4, row, 10, Str("=F" \o ToString(20 + i)), Keep, Keep),
              OpCell(4, row, 10, None, Keep, GBP),
              OpCell(4, row, 11, Str("=F" \o ToString(29 + i)), Keep, Keep),
              OpCell(4, row, 11, None, Keep, GBP)>>)

\* lines 524-536: the line chart of the ARR projections
v2_chart3 ==
    set_categories(
        add_data(NewChart("line"), Reference(4, 9, 4, 11, 9), TRUE),
        Reference(4, 8, 5, 0, 9))

\* lines 392-542: sheet 4, Growth Projections
v2_growth ==
    <<OpCreateSheet("Growth Projections")>>
    \o Label(4, "A1", "GROWTH PROJECTIONS")
    \o <<OpMerge(4, "A1:F1")>>
    \o Label(4, "A3", "SCENARIO INPUTS (Edit yellow cells)")
    \o <<OpAt(4, "A5", Str("Monthly Rate ({GBP})"), Keep, Keep)>>
    \o v2_input_cell(4, "B5", Num(250), GBP)
    \o <<OpAt(4, "A6", Str("Annual Churn Rate (%)"), Keep, Keep)>>
    \o v2_input_cell(4, "B6", Flt(5, 100), "0%")
    \o Label(4, "A9", "CONSERVATIVE (10 new firms/year)")
    \o write_headers(4, 10, 1, v2_growth_headers, v2_header_fill)
    \o v2_scenario_rows(11, v2_conservative_new)
    \o Label(4, "A18", "MODERATE (25 new firms/year)")
    \o write_headers(4, 19, 1, v2_growth_headers, v2_header_fill)
    \o v2_scenario_rows(20, v2_moderate_new)
    \o Label(4, "A27", "AGGRESSIVE (50 new firms/year)")
    \o write_headers(4, 28, 1, v2_growth_headers, v2_header_fill)
    \o v2_scenario_rows(29, v2_aggressive_new)
    \o Label(4, "H3", "ARR Comparison (for chart)")
    \o write_headers(4, 4, 8, v2_chart_headers, v2_header_fill)
    \o v2_arr_rows
    \o <<OpChart(4, v2_chart3, "H12")>>
    \o ForRange(1, 11, LAMBDA col : <<OpWidth(4, get_column_letter(col), 14)>>)

\* lines 574-581
v2_inputs_fill(row_idx, col_idx, value) ==
    IF row_idx = 6 THEN v2_header_fill
    ELSE IF col_idx = 2 THEN v2_input_fill ELSE Keep
v2_inputs_format(row_idx, col_idx, value) ==
    IF row_idx # 6 /\ col_idx = 2 THEN GBP ELSE Keep

\* lines 610-620
v2_time_fill(row_idx, col_idx, value) ==
    IF row_idx = 19 THEN v2_header_fill
    ELSE IF col_idx = 2 THEN v2_input_fill ELSE Keep
v2_time_format(row_idx, col_idx, value) ==
    IF row_idx # 19 /\ col_idx = 2
    THEN (IF row_idx = 21 THEN "0%" ELSE IF row_idx = 22 THEN GBP ELSE Keep)
    ELSE Keep

\* lines 655-672
v2_results_fill(row_idx, col_idx, value) ==
    Then(IF row_idx = 33 THEN v2_header_fill ELSE Keep,
         IF row_idx \in {39, 41, 43, 44} THEN v2_highlight_fill ELSE Keep)
v2_results_format(row_idx, col_idx, value) ==
    IF row_idx # 33 /\ col_idx \in {2, 3} /\ Truthy(value) /\ value # Str("")
    THEN (IF row_idx = 44 THEN "0.0\"%\""
          ELSE IF row_idx \in {35, 36, 37} THEN "0.0"
          ELSE GBP)
    ELSE Keep

\* lines 675-696: the bar chart of the savings
v2_chart4 ==
    set_categories(
        add_data(NewChart("bar"), Reference(5, 7, 33, 0, 35), TRUE),
        Reference(5, 6, 34, 0, 35))

\* lines 547-704: sheet 5, ROI Calculator
v2_roi ==
    <<OpCreateSheet("ROI Calculator")>>
    \o Label(5, "A1", "CLIENT ROI CALCULATOR")
    \o <<OpMerge(5, "A1:D1")>>
    \o Label(5, "A2", "Calculate the ROI for your prospective clients")
    \o Label(5, "A4", "CURRENT TOOL COSTS (Edit yellow cells)")
    \o write_rows(5, 6, v2_inputs, v2_inputs_fill, v2_inputs_format)
    \o Label(5, "A14", "TOTAL CURRENT MONTHLY COST")
    \o <<OpAt(5, "B14", Str("=SUM(B7:B13)"), Keep, Keep),
         OpAt(5, "B14", KeepValue, Keep, GBP),
         Access(5, "B14"),
         OpAt(5, "A14", KeepValue, v2_blue_fill, Keep),
         OpAt(5, "B14", KeepValue, v2_blue_fill, Keep),
         Access(5, "A14"),
         Access(5, "B14")>>
    \o Label(5, "A17", "TIME SAVINGS (Edit yellow cells)")
    \o write_rows(5, 19, v2_time_inputs, v2_time_fill, v2_time_format)
    \o Label(5, "A26", "PLANNETIC COST")
    \o <<OpAt(5, "A28", Str("Plannetic Monthly Cost"), Keep, Keep)>>
    \o v2_input_cell(5, "B28", Num(250), GBP)
    \o <<Access(5, "A28")>>
    \o Label(5, "A31", "ROI ANALYSIS")
    \o write_rows(5, 33, v2_results, v2_results_fill, v2_results_format)
    \o <<OpAt(5, "F33", Str("Category"), Keep, Keep),
         OpAt(5, "G33", Str("Value"), Keep, Keep),
         OpAt(5, "F34", Str("Software Savings"), Keep, Keep),
         OpAt(5, "G34", Str("=B33"), Keep, Keep),
         OpAt(5, "F35", Str("Time Value Saved"), Keep, Keep),
         OpAt(5, "G35", Str("=B37"), Keep, Keep),
         OpAt(5, "G34", KeepValue, Keep, GBP),
         OpAt(5, "G35", KeepValue, Keep, GBP),
         OpChart(5, v2_chart4, "E17"),
         OpWidth(5, "A", 32), OpWidth(5, "B", 15), OpWidth(5, "C", 15),
         OpWidth(5, "D", 25)>>

\* lines 760-772
v2_features_fill(row_idx, col_idx, value) ==
    IF value \in {Str("CORE FEATURES"), Str("PREMIUM FEATURES"),
                  Str("ONBOARDING"), Str("CONTRACT")}
    THEN v2_blue_fill ELSE Keep
v2_features_format(row_idx, col_idx, value) ==
    IF row_idx \in {29, 30} /\ col_idx \in {2, 3} THEN GBP ELSE Keep

\* lines 709-778: sheet 6, Tier Comparison
v2_tiers ==
    <<OpCreateSheet("Tier Comparison")>>
    \o Label(6, "A1", "PLANNETIC PRICING TIERS")
    \o <<OpMerge(6, "A1:D1")>>
    \o write_headers(6, 3, 1, v2_tier_headers, v2_header_fill)
    \o write_rows(6, 4, v2_features, v2_features_fill, v2_features_format)
    \o <<OpWidth(6, "A", 28), OpWidth(6, "B", 20), OpWidth(6, "C", 20),
         OpWidth(6, "D", 20)>>

\* lines 781-790
v2_output_path == "/Users/adeomosanya/Downloads/Plannetic-Pricing-Analysis-v2.xlsx"
v2_save ==
    <<OpSave(v2_output_path),
      OpPrint("{OK} Excel file created successfully: " \o v2_output_path),
      OpPrint("\nSheets included:"),
      OpPrint("1. Summary - Executive overview"),
      OpPrint("2. Competitor Pricing - Verified data + bar chart + pie chart"),
      OpPrint("3. Revenue Calculator - Formulas linked to inputs"),
      OpPrint("4. Growth Projections - 3 scenarios + line chart"),
      OpPrint("5. ROI Calculator - Full ROI analysis + bar chart"),
      OpPrint("6. Tier Comparison - Feature matrix")>>

v2_program ==
    v2_imports \o v2_summary \o v2_comp \o v2_calc \o v2_growth \o v2_roi
    \o v2_tiers \o v2_save

\* create-pricing-excel-v3.py, lines 57-66
v3_summary_text ==
    <<"Plannetic is a comprehensive, compliance-focused financial advisory platform",
      "designed specifically for UK-regulated Independent Financial Advisors (IFAs).",
      "",
      "Key Value Proposition:",
      "{*} Replaces 5-7 separate tools with one integrated platform",
      "{*} Saves IFAs {GBP}280+/month vs competitor tool stack ({GBP}530 {->} {GBP}250)",
      "{*} Saves 10-20 hours per client onboarding",
      "{*} Built-in FCA compliance and Consumer Duty workflows">>

\* create-pricing-excel-v3.py, lines 76-76
v3_cost_headers ==
    <<"Category", "Cost ({GBP}/mo)">>

\* create-pricing-excel-v3.py, lines 83-88
v3_cost_data ==
    <<<<Str("Competitor Stack"), Num(530)>>,
      <<Str("Plannetic Standard"), Num(250)>>,
      <<Str("Plannetic Professional"), Num(300)>>,
      <<Str("Monthly Savings"), Num(280)>>>>

\* create-pricing-excel-v3.py, lines 121-121
v3_pricing_headers ==
    <<"Tier",
      "Monthly",
      "Commitment",
      "2-Year TCV",
      "3-Year TCV",
      "Best For">>

\* create-pricing-excel-v3.py, lines 129-134
v3_pricing_data ==
    <<<<Str("Monthly"), Num(350), Str("Month-to-month"), Str("=B28*24"), Str("=B28*36"), Str("Trial/uncertain firms")>>,
      <<Str("Standard"), Num(250), Str("2-year"), Str("=B29*24"), Str("=B29*36"), Str("Solo advisors, small firms")>>,
      <<Str("Professional"), Num(300), Str("2-year"), Str("=B30*24"), Str("=B30*36"), Str("Growing firms, AI + support")>>,
      <<Str("Enterprise"), Str("Custom"), Str("3-year"), Str("Custom"), Str("Custom"), Str("5+ advisors, white-label")>>>>

\* create-pricing-excel-v3.py, lines 172-172
v3_comp_headers ==
    <<"Software",
      "Monthly Price",
      "Price Type",
      "What They Offer",
      "Source">>

\* create-pricing-excel-v3.py, lines 180-187
v3_competitors ==
    <<<<Str("Intelliflo Office"), Num(132), Str("Per user"), Str("Back office + cashflow"), Str("TrustRadius")>>,
      <<Str("Voyant AdviserGo"), Num(175), Str("Flat fee"), Str("Cash flow planning"), Str("voyant.com")>>,
      <<Str("Timeline"), Num(162), Str("Flat (+VAT)"), Str("Monte Carlo simulations"), Str("timeline.co")>>,
      <<Str("FE CashCalc"), Num(90), Str("Per adviser (+VAT)"), Str("Cash flow modelling"), Str("advisoryai.com")>>,
      <<Str("Dynamic Planner"), Num(200), Str("Estimated"), Str("Risk profiling + reports"), Str("Contact required")>>,
      <<Str("Plannetic Standard"), Num(250), Str("Flat fee"), Str("ALL-IN-ONE PLATFORM"), Str("Your price")>>>>

\* create-pricing-excel-v3.py, lines 224-224
v3_stack_headers ==
    <<"Tool Category", "Standalone Cost", "Plannetic", "Savings">>

\* create-pricing-excel-v3.py, lines 232-240
v3_stack_data ==
    <<<<Str("CRM (generic)"), Num(50), Str("Included"), Str("=B35")>>,
      <<Str("Risk Profiling"), Num(50), Str("Included"), Str("=B36")>>,
      <<Str("Cash Flow (Voyant)"), Num(175), Str("Included"), Str("=B37")>>,
      <<Str("Monte Carlo (Timeline)"), Num(162), Str("Included"), Str("=B38")>>,
      <<Str("Document Generation"), Num(50), Str("Included"), Str("=B39")>>,
      <<Str("E-Signatures"), Num(23), Str("Included"), Str("=B40")>>,
      <<Str("Compliance Tracking"), Num(50), Str("Included"), Str("=B41")>>>>

\* create-pricing-excel-v3.py, lines 284-289
v3_sources ==
    <<"{*} Voyant: planwithvoyant.com/uk/pricing", "{*} Timeline: timeline.co ({GBP}135+VAT = {GBP}162)", "{*} CashCalc: advisoryai.com ({GBP}75+VAT = {GBP}90)", "{*} Intelliflo: trustradius.com ({GBP}130-135/user)">>

\* create-pricing-excel-v3.py, lines 336-336
v3_calc_headers ==
    <<"# Firms",
      "{GBP}250/mo (2yr)",
      "{GBP}300/mo (2yr)",
      "{GBP}250/mo (3yr)",
      "{GBP}300/mo (3yr)",
      "Difference",
      "Avg MRR">>

\* create-pricing-excel-v3.py, lines 344-344
v3_firm_counts ==
    <<1, 2, 3, 4, 5, 10, 15, 20, 25, 50, 75, 100, 150, 200, 250, 300>>

\* create-pricing-excel-v3.py, lines 383-383
v3_chart_data_headers ==
    <<"Firms", "2yr @ {GBP}250", "3yr @ {GBP}300">>

\* create-pricing-excel-v3.py, lines 446-446
v3_growth_headers ==
    <<"Year",
      "New Firms",
      "Churn",
      "Total Firms",
      "MRR",
      "ARR">>

\* create-pricing-excel-v3.py, lines 459-459
v3_conservative_new ==
    <<10, 10, 15, 20, 25>>

\* create-pricing-excel-v3.py, lines 488-488
v3_moderate_new ==
    <<25, 35, 45, 60, 75>>

\* create-pricing-excel-v3.py, lines 517-517
v3_aggressive_new ==
    <<50, 70, 100, 130, 150>>

\* create-pricing-excel-v3.py, lines 539-539
v3_chart_headers ==
    <<"Year", "Conservative", "Moderate", "Aggressive">>

\* create-pricing-excel-v3.py, lines 592-601
v3_inputs ==
    <<<<Str("Tool"), Str("Monthly Cost"), Str("Notes")>>,
      <<Str("CRM (generic)"), Num(50), Str("Salesforce/HubSpot equivalent")>>,
      <<Str("Risk Profiling Tool"), Num(50), Str("Dynamic Planner element")>>,
      <<Str("Cash Flow (Voyant)"), Num(175), Str("Verified Dec 2025")>>,
      <<Str("Monte Carlo (Timeline)"), Num(162), Str("Verified Dec 2025 ({GBP}135+VAT)")>>,
      <<Str("Document Generation"), Num(50), Str("Word templates/Templafy")>>,
      <<Str("E-Signatures"), Num(23), Str("DocuSign/Adobe Sign")>>,
      <<Str("Compliance Tracking"), Num(50), Str("Manual/specialist tool")>>>>

\* create-pricing-excel-v3.py, lines 631-637
v3_time_inputs ==
    <<<<Str("Metric"), Str("Value"), Str("Notes")>>,
      <<Str("Hours per client onboarding (current)"), Num(15), Str("Manual process")>>,
      <<Str("Time saved with Plannetic (%)"), Flt(6, 10), Str("60% automation")>>,
      <<Str("Your hourly rate ({GBP})"), Num(100), Str("Advisor charge-out rate")>>,
      <<Str("New clients per month"), Num(4), Str("Average new clients")>>>>

\* create-pricing-excel-v3.py, lines 670-681
v3_results ==
    <<<<Str("Metric"), Str("Monthly"), Str("Annual")>>,
      <<Str("Software Savings"), Str("=B14-B28"), Str("=B33*12")>>,
      <<Str("Hours Saved per Client"), Str("=B20*B21"), Str("")>>,
      <<Str("Total Hours Saved (all clients)"), Str("=B34*B23"), Str("=B35*12")>>,
      <<Str("Value of Time Saved"), Str("=B35*B22"), Str("=B36*12")>>,
      <<Str(""), Str(""), Str("")>>,
      <<Str("TOTAL BENEFIT"), Str("=B33+B36"), Str("=B38*12")>>,
      <<Str("Plannetic Cost"), Str("=B28"), Str("=B28*12")>>,
      <<Str("NET BENEFIT"), Str("=B38-B39"), Str("=B40*12")>>,
      <<Str("ROI %"), Str("=(B40/B39)*100"), Str("")>>>>

\* create-pricing-excel-v3.py, lines 784-784
v3_tier_headers ==
    <<"Feature", "Standard {GBP}250/mo", "Professional {GBP}300/mo", "Enterprise (Custom)">>

\* create-pricing-excel-v3.py, lines 792-820
v3_features ==
    <<<<Str("CORE FEATURES"), Str(""), Str(""), Str("")>>,
      <<Str("Client Management Hub"), Str("{v}"), Str("{v}"), Str("{v}")>>,
      <<Str("All 6 Assessment Types"), Str("{v}"), Str("{v}"), Str("{v}")>>,
      <<Str("Unlimited Clients"), Str("{v}"), Str("{v}"), Str("{v}")>>,
      <<Str("Document Generation"), Str("{v}"), Str("{v}"), Str("{v}")>>,
      <<Str("E-Signatures"), Str("Fair Use"), Str("Unlimited"), Str("Unlimited")>>,
      <<Str("FCA Compliance Registers"), Str("{v}"), Str("{v}"), Str("{v}")>>,
      <<Str("Consumer Duty Workflows"), Str("{v}"), Str("{v}"), Str("{v}")>>,
      <<Str(""), Str(""), Str(""), Str("")>>,
      <<Str("PREMIUM FEATURES"), Str(""), Str(""), Str("")>>,
      <<Str("AI Enhancement"), Str("{--}"), Str("{v}"), Str("{v}")>>,
      <<Str("Priority Support (4hr SLA)"), Str("{--}"), Str("{v}"), Str("{v}")>>,
      <<Str("Phone Support"), Str("{--}"), Str("{v}"), Str("{v}")>>,
      <<Str("White-label Client Portal"), Str("{--}"), Str("{v}"), Str("{v}")>>,
      <<Str("Advanced Analytics"), Str("{--}"), Str("{v}"), Str("{v}")>>,
      <<Str("API Access"), Str("{--}"), Str("{--}"), Str("{v}")>>,
      <<Str("Custom Integrations"), Str("{--}"), Str("{--}"), Str("{v}")>>,
      <<Str("Dedicated Account Manager"), Str("{--}"), Str("{--}"), Str("{v}")>>,
      <<Str(""), Str(""), Str(""), Str("")>>,
      <<Str("ONBOARDING"), Str(""), Str(""), Str("")>>,
      <<Str("Data Migration"), Str("Self-serve"), Str("Assisted"), Str("Full Service")>>,
      <<Str("Training Sessions"), Str("2 calls"), Str("4 calls"), Str("Unlimited")>>,
      <<Str(""), Str(""), Str(""), Str("")>>,
      <<Str("CONTRACT"), Str(""), Str(""), Str("")>>,
      <<Str("Minimum Commitment"), Str("2 years"), Str("2 years"), Str("3 years")>>,
      <<Str("2-Year TCV"), Str("=250*24"), Str("=300*24"), Str("Custom")>>,
      <<Str("3-Year TCV"), Str("=250*36"), Str("=300*36"), Str("Custom")>>>>

(***************************************************************************)
(* create-pricing-excel-v3.py                                              *)
(***************************************************************************)
\* lines 7-12: the imports, none of them guarded
v3_imports == <<OpImport, OpImport, OpImport, OpImport, OpImport, OpImport>>

\* lines 27-32
v3_header_fill == PatternFill("1E40AF")
v3_alt_fill == PatternFill("F3F4F6")
v3_highlight_fill == PatternFill("DCFCE7")
v3_input_fill == PatternFill("FEF3C7")
v3_blue_fill == PatternFill("DBEAFE")

\* lines 90-97: for row_idx, (label, value) in enumerate(cost_data, start=19)
v3_cost_rows ==
    ForEach(v3_cost_data, LAMBDA i, row :
        LET row_idx == 19 + i - 1
        IN  <<OpCell(1, row_idx, 1, row[1], Keep, Keep),
              OpCell(1, row_idx, 2, row[2], Keep, GBP)>>
            \o (IF row_idx = 22
                THEN <<OpCell(1, row_idx, 1, None, v3_highlight_fill, Keep),
                       OpCell(1, row_idx, 2, None, v3_highlight_fill, Keep)>>
                ELSE <<>>))

\* lines 100-113: the bar chart of the cost comparison
v3_chart_summary ==
    set_categories(
        add_data(NewChart("bar"), Reference(1, 2, 18, 0, 21), TRUE),
        Reference(1, 1, 19, 0, 21))

\* lines 142-147
v3_pricing_fill(row_idx, col_idx, value) ==
    IF row_idx % 2 = 1 THEN v3_alt_fill ELSE Keep
v3_pricing_format(row_idx, col_idx, value) ==
    Then(IF col_idx = 2 /\ IsInt(value) THEN GBP ELSE Keep,
         IF col_idx \in {4, 5} /\ IsStr(value) /\ StartsWith(value.s, "=")
         THEN GBP ELSE Keep)

\* lines 15, 44-155: sheet 1, Summary
v3_summary ==
    <<OpWorkbook, OpTitle(1, "Summary")>>
    \o Label(1, "A1", "PLANNETIC PRICING ANALYSIS")
    \o <<OpMerge(1, "A1:F1")>>
    \o Label(1, "A2", "Verified December 2025")
    \o Label(1, "A4", "What is Plannetic?")
    \o ForEach(v3_summary_text, LAMBDA i, text : Label(1, CoordOf("A", 6 + i - 1), text))
    \o Label(1, "A16", "Cost Comparison")
    \o write_headers(1, 18, 1, v3_cost_headers, v3_header_fill)
    \o v3_cost_rows
    \o <<OpChart(1, v3_chart_summary, "D16")>>
    \o Label(1, "A25", "Recommended Pricing Tiers")
    \o write_headers(1, 27, 1, v3_pricing_headers, v3_header_fill)
    \o write_rows(1, 28, v3_pricing_data, v3_pricing_fill, v3_pricing_format)
    \o <<OpWidth(1, "A", 25), OpWidth(1, "B", 12), OpWidth(1, "C", 18),
         OpWidth(1, "D", 14), OpWidth(1, "E", 14), OpWidth(1, "F", 26)>>

\* lines 194-200
v3_competitors_fill(row_idx, col_idx, value) ==
    IF row_idx = 12 THEN v3_highlight_fill
    ELSE IF row_idx % 2 = 0 THEN v3_alt_fill ELSE Keep
v3_competitors_format(row_idx, col_idx, value) ==
    IF col_idx = 2 THEN GBP ELSE Keep

\* lines 247-248
v3_stack_format(row_idx, col_idx, value) ==
    IF col_idx \in {2, 4} THEN GBP ELSE Keep

\* lines 203-216: the bar chart of the competitor prices
v3_chart1 ==
    set_categories(
        add_data(NewChart("bar"), Reference(2, 2, 6, 0, 12), TRUE),
        Reference(2, 1, 7, 0, 12))

\* lines 265-277: the pie chart of the tool stack
v3_chart2 ==
    set_categories(
        add_data(NewChart("pie"), Reference(2, 2, 35, 0, 41), FALSE),
        Reference(2, 1, 35, 0, 41))

\* lines 160-299: sheet 2, Competitor Pricing
v3_comp ==
    <<OpCreateSheet("Competitor Pricing")>>
    \o Label(2, "A1", "COMPETITOR PRICING ANALYSIS")
    \o <<OpMerge(2, "A1:E1")>>
    \o Label(2, "A2", "Verified December 2025 - Sources linked below")
    \o Label(2, "A4", "UK IFA Software Market - Verified Pricing")
    \o write_headers(2, 6, 1, v3_comp_headers, v3_header_fill)
    \o write_rows(2, 7, v3_competitors, v3_competitors_fill, v3_competitors_format)
    \o <<OpChart(2, v3_chart1, "A15")>>
    \o Label(2, "A32", "Typical IFA Tool Stack vs Plannetic")
    \o write_headers(2, 34, 1, v3_stack_headers, v3_header_fill)
    \o write_rows(2, 35, v3_stack_data, NoFill, v3_stack_format)
    \o <<OpAt(2, "A42", Str("TOTAL"), Keep, Keep),
         OpAt(2, "B42", Str("=SUM(B35:B41)"), Keep, Keep),
         OpAt(2, "C42", Str("{GBP}250/mo"), Keep, Keep),
         OpAt(2, "D42", Str("=B42-250"), Keep, Keep)>>
    \o ForRange(1, 4, LAMBDA col :
         <<OpCell(2, 42, col, None, v3_highlight_fill,
                  IF col \in {2, 4} THEN GBP ELSE Keep)>>)
    \o <<OpChart(2, v3_chart2, "F32")>>
    \o Label(2, "A45", "Sources:")
    \o ForEach(v3_sources, LAMBDA i, source : Label(2, CoordOf("A", 46 + i - 1), source))
    \o <<OpWidth(2, "A", 22), OpWidth(2, "B", 15), OpWidth(2, "C", 18),
         OpWidth(2, "D", 12), OpWidth(2, "E", 18)>>

\* ws[a] = v; ws[a].number_format = fmt; ws[a].fill = fill; ws[a].border = ...
v3_input_cell(sh, a, v, fmt) ==
    <<OpAt(sh, a, v, Keep, Keep), OpAt(sh, a, KeepValue, Keep, fmt),
      OpAt(sh, a, KeepValue, v3_input_fill, Keep), Access(sh, a)>>

\* lines 345-377: one row of the revenue table per firm count
v3_firm_rows ==
    ForEach(v3_firm_counts, LAMBDA i, firms :
        LET row_idx == 13 + i - 1
            r == ToString(row_idx)
        IN  <<OpCell(3, row_idx, 1, Num(firms), Keep, Keep),
              OpCell(3, row_idx, 1, None, Keep, Keep),
              OpCell(3, row_idx, 2, Str("=A" \o r \o "*$B$5*24"), Keep, GBP),
              OpCell(3, row_idx, 3, Str("=A" \o r \o "*$B$6*24"), Keep, GBP),
              OpCell(3, row_idx, 4, Str("=A" \o r \o "*$B$5*36"), Keep, GBP),
              OpCell(3, row_idx, 5, Str("=A" \o r \o "*$B$6*36"), Keep, GBP),
              OpCell(3, row_idx, 6, Str("=E" \o r \o "-B" \o r), v3_highlight_fill, GBP),
              OpCell(3, row_idx, 7, Str("=A" \o r \o "*($B$5+$B$6)/2"), Keep, GBP)>>
            \o (IF row_idx % 2 = 0
                THEN ForRange(1, 5, LAMBDA c : <<OpFillIfDefault(3, row_idx, c, v3_alt_fill)>>)
                ELSE <<>>))

\* line 391: (firms, row in main table)
v3_milestones == <<<<10, 17>>, <<25, 20>>, <<50, 21>>, <<100, 24>>>>

\* lines 392-398
v3_milestone_rows ==
    ForEach(v3_milestones, LAMBDA k, m :
        LET row == 12 + (k - 1)
            firms == m[1]
            src_row == ToString(m[2])
        IN  <<OpCell(3, row, 9, Num(firms), Keep, Keep),
              OpCell(3, row, 10, Str("=B" \o src_row), Keep, Keep),
              OpCell(3, row, 10, None, Keep, GBP),
              OpCell(3, row, 11, Str("=E" \o src_row), Keep, Keep),
              OpCell(3, row, 11, None, Keep, GBP)>>)

\* lines 401-413: the line chart of the revenue milestones
v3_chart_rev ==
    set_categories(
        add_data(NewChart("line"), Reference(3, 10, 11, 11, 15), TRUE),
        Reference(3, 9, 12, 0, 15))

\* lines 304-419: sheet 3, Revenue Calculator
v3_calc ==
    <<OpCreateSheet("Revenue Calculator")>>
    \o Label(3, "A1", "REVENUE CALCULATOR")
    \o <<OpMerge(3, "A1:G1")>>
    \o Label(3, "A3", "INPUT PARAMETERS (Edit yellow cells)")
    \o <<OpAt(3, "A5", Str("Standard Monthly Rate ({GBP})"), Keep, Keep)>>
    \o v3_input_cell(3, "B5", Num(250), GBP)
    \o <<OpAt(3, "A6", Str("Professional Monthly Rate ({GBP})"), Keep, Keep)>>
    \o v3_input_cell(3, "B6", Num(300), GBP)
    \o <<OpAt(3, "A7", Str("Monthly Rate (no commitment) ({GBP})"), Keep, Keep)>>
    \o v3_input_cell(3, "B7", Num(350), GBP)
    \o Label(3, "A10", "REVENUE BY NUMBER OF FIRMS")
    \o write_headers(3, 12, 1, v3_calc_headers, v3_header_fill)
    \o v3_firm_rows
    \o Label(3, "I10", "Revenue Milestones (for chart)")
    \o write_headers(3, 11, 9, v3_chart_data_headers, v3_header_fill)
    \o v3_milestone_rows
    \o <<OpChart(3, v3_chart_rev, "I17")>>
    \o ForRange(1, 11, LAMBDA col : <<OpWidth(3, get_column_letter(col), 15)>>)

\* lines 460-475 (489-504 and 518-533 are the same loop over the moderate
\* and the aggressive numbers): the rows of one scenario, the first at `first'
v3_scenario_rows(first, new) ==
    ForEach(new, LAMBDA k, new_firms :
        LET i == k - 1
            row == first + i
            r == ToString(row)
            p == ToString(row - 1)
        IN  <<OpCell(4, row, 1, Num(i + 1), Keep, Keep),
              OpCell(4, row, 2, Num(new_firms), Keep, Keep)>>
            \o (IF i = 0
                THEN <<OpCell(4, row, 3, Num(0), Keep, Keep),
                       OpCell(4, row, 4, Str("=B" \o r), Keep, Keep)>>
                ELSE <<OpCell(4, row, 3, Str("=ROUND(D" \o p \o "*$B$6,0)"), Keep, Keep),
                       OpCell(4, row, 4, Str("=D" \o p \o "+B" \o r \o "-C" \o r), Keep, Keep)>>)
            \o <<OpCell(4, row, 5, Str("=D" \o r \o "*$B$5"), Keep, Keep),
                 OpCell(4, row, 5, None, Keep, GBP),
                 OpCell(4, row, 6, Str("=E" \o r \o "*12"), Keep, Keep),
                 OpCell(4, row, 6, None, Keep, GBP)>>
            \o ForRange(1, 6, LAMBDA col : <<OpCell(4, row, col, None, Keep, Keep)>>))

\* lines 546-554: the ARR comparison table
v3_arr_rows ==
    ForRange(0, 4, LAMBDA i :
        LET row == 5 + i
        IN  <<OpCell(4, row, 8, Num(i + 1), Keep, Keep),
              OpCell(4, row, 9, Str("=F" \o ToString(11 + i)), Keep, Keep),
              OpCell(4, row, 9, None, Keep, GBP),
              OpCell(4, row, 10, Str("=F" \o ToString(20 + i)), Keep, Keep),
              OpCell(4, row, 10, None, Keep, GBP),
              OpCell(4, row, 11, Str("=F" \o ToString(29 + i)), Keep, Keep),
              OpCell(4, row, 11, None, Keep, GBP)>>)

\* lines 557-569: the line chart of the ARR projections
v3_chart3 ==
    set_categories(
        add_data(NewChart("line"), Reference(4, 9, 4, 11, 9), TRUE),
        Reference(4, 8, 5, 0, 9))

\* lines 424-575: sheet 4, Growth Projections
v3_growth ==
    <<OpCreateSheet("Growth Projections")>>
    \o Label(4, "A1", "GROWTH PROJECTIONS")
    \o <<OpMerge(4, "A1:F1")>>
    \o Label(4, "A3", "SCENARIO INPUTS (Edit yellow cells)")
    \o <<OpAt(4, "A5", Str("Monthly Rate ({GBP})"), Keep, Keep)>>
    \o v3_input_cell(4, "B5", Num(250), GBP)
    \o <<OpAt(4, "A6", Str("Annual Churn Rate (%)"), Keep, Keep)>>
    \o v3_input_cell(4, "B6", Flt(5, 100), "0%")
    \o Label(4, "A9", "CONSERVATIVE (10 new firms/year)")
    \o write_headers(4, 10, 1, v3_growth_headers, v3_header_fill)
    \o v3_scenario_rows(11, v3_conservative_new)
    \o Label(4, "A18", "MODERATE (25 new firms/year)")
    \o write_headers(4, 19, 1, v3_growth_headers, v3_header_fill)
    \o v3_scenario_rows(20, v3_moderate_new)
    \o Label(4, "A27", "AGGRESSIVE (50 new firms/year)")
    \o write_headers(4, 28, 1, v3_growth_headers, v3_header_fill)
    \o v3_scenario_rows(29, v3_aggressive_new)
    \o Label(4, "H3", "ARR Comparison (for chart)")
    \o write_headers(4, 4, 8, v3_chart_headers, v3_header_fill)
    \o v3_arr_rows
    \o <<OpChart(4, v3_chart3, "H12")>>
    \o ForRange(1, 11, LAMBDA col : <<OpWidth(4, get_column_letter(col), 14)>>)

\* lines 606-613
v3_inputs_fill(row_idx, col_idx, value) ==
    IF row_idx = 6 THEN v3_header_fill
    ELSE IF col_idx = 2 THEN v3_input_fill ELSE Keep
v3_inputs_format(row_idx, col_idx, value) ==
    IF row_idx # 6 /\ col_idx = 2 THEN GBP ELSE Keep

\* lines 642-652
v3_time_fill(row_idx, col_idx, value) ==
    IF row_idx = 19 THEN v3_header_fill
    ELSE IF col_idx = 2 THEN v3_input_fill ELSE Keep
v3_time_format(row_idx, col_idx, value) ==
    IF row_idx # 19 /\ col_idx = 2
    THEN (IF row_idx = 21 THEN "0%" ELSE IF row_idx = 22 THEN GBP ELSE Keep)
    ELSE Keep

\* lines 686-702
v3_results_fill(row_idx, col_idx, value) ==
    Then(IF row_idx = 33 THEN v3_header_fill ELSE Keep,
         IF row_idx \in {38, 40, 41, 43} THEN v3_highlight_fill ELSE Keep)
v3_results_format(row_idx, col_idx, value) ==
    IF row_idx # 33 /\ col_idx \in {2, 3} /\ Truthy(value)
    THEN (IF row_idx = 43 THEN "0\"%\""
          ELSE IF row_idx \in {34, 35, 36} THEN "0.0"
          ELSE GBP)
    ELSE Keep

\* lines 705-745: the table the ROI chart reads
v3_breakdown ==
    Label(5, "E31", "Savings Breakdown")
    \o <<OpAt(5, "E33", Str("Category"), Keep, Keep),
         OpAt(5, "F33", Str("Monthly"), Keep, Keep),
         OpAt(5, "G33", Str("Annual"), Keep, Keep),
         Access(5, "E33"), Access(5, "F33"), Access(5, "G33"),
         OpAt(5, "E33", KeepValue, v3_header_fill, Keep),
         OpAt(5, "F33", KeepValue, v3_header_fill, Keep),
         OpAt(5, "G33", KeepValue, v3_header_fill, Keep),
         Access(5, "E33"), Access(5, "F33"), Access(5, "G33"),
         OpAt(5, "E34", Str("Software Savings"), Keep, Keep),
         OpAt(5, "F34", Str("=B33"), Keep, Keep),
         OpAt(5, "G34", Str("=C33"), Keep, Keep),
         OpAt(5, "E35", Str("Time Value Saved"), Keep, Keep),
         OpAt(5, "F35", Str("=B36"), Keep, Keep),
         OpAt(5, "G35", Str("=C36"), Keep, Keep),
         OpAt(5, "E36", Str("Total Benefit"), Keep, Keep),
         OpAt(5, "F36", Str("=B38"), Keep, Keep),
         OpAt(5, "G36", Str("=C38"), Keep, Keep),
         OpAt(5, "E37", Str("Plannetic Cost"), Keep, Keep),
         OpAt(5, "F37", Str("=B39"), Keep, Keep),
         OpAt(5, "G37", Str("=C39"), Keep, Keep),
         OpAt(5, "E38", Str("Net Benefit"), Keep, Keep),
         OpAt(5, "F38", Str("=B40"), Keep, Keep),
         OpAt(5, "G38", Str("=C40"), Keep, Keep)>>
    \o ForRange(34, 38, LAMBDA row :
         ForRange(5, 7, LAMBDA col :
           <<OpCell(5, row, col, None,
                    IF row = 38 THEN v3_highlight_fill ELSE Keep,
                    IF col \in {6, 7} THEN GBP ELSE Keep)>>))

\* a variation: the data reference runs one row past the table
v3_chart_roi_long ==
    set_categories(
        add_data(NewChart("bar"), Reference(5, 6, 33, 0, 39), TRUE),
        Reference(5, 5, 34, 0, 37))

\* lines 748-762: the bar chart of the monthly value analysis
v3_chart_roi ==
    set_categories(
        add_data(NewChart("bar"), Reference(5, 6, 33, 0, 37), TRUE),
        Reference(5, 5, 34, 0, 37))

\* lines 580-773: sheet 5, ROI Calculator
v3_roi ==
    <<OpCreateSheet("ROI Calculator")>>
    \o Label(5, "A1", "CLIENT ROI CALCULATOR")
    \o <<OpMerge(5, "A1:D1")>>
    \o Label(5, "A2", "Calculate the ROI for your prospective clients")
    \o Label(5, "A4", "CURRENT TOOL COSTS (Edit yellow cells)")
    \o write_rows(5, 6, v3_inputs, v3_inputs_fill, v3_inputs_format)
    \o Label(5, "A14", "TOTAL CURRENT MONTHLY COST")
    \o <<OpAt(5, "B14", Str("=SUM(B7:B13)"), Keep, Keep),
         OpAt(5, "B14", KeepValue, Keep, GBP),
         Access(5, "B14"),
         OpAt(5, "A14", KeepValue, v3_blue_fill, Keep),
         OpAt(5, "B14", KeepValue, v3_blue_fill, Keep),
         Access(5, "A14"),
         Access(5, "B14")>>
    \o Label(5, "A17", "TIME SAVINGS (Edit yellow cells)")
    \o write_rows(5, 19, v3_time_inputs, v3_time_fill, v3_time_format)
    \o Label(5, "A26", "PLANNETIC COST")
    \o <<OpAt(5, "A28", Str("Plannetic Monthly Cost"), Keep, Keep)>>
    \o v3_input_cell(5, "B28", Num(250), GBP)
    \o <<Access(5, "A28")>>
    \o Label(5, "A31", "ROI ANALYSIS")
    \o write_rows(5, 33, v3_results, v3_results_fill, v3_results_format)
    \o v3_breakdown
    \o <<OpChart(5, v3_chart_roi, "E41"),
         OpWidth(5, "A", 32), OpWidth(5, "B", 14), OpWidth(5, "C", 14),
         OpWidth(5, "D", 8), OpWidth(5, "E", 18), OpWidth(5, "F", 12),
         OpWidth(5, "G", 12)>>

\* lines 828-839
v3_features_fill(row_idx, col_idx, value) ==
    IF value \in {Str("CORE FEATURES"), Str("PREMIUM FEATURES"),
                  Str("ONBOARDING"), Str("CONTRACT")}
    THEN v3_blue_fill ELSE Keep
v3_features_format(row_idx, col_idx, value) ==
    IF row_idx \in {29, 30} /\ col_idx \in {2, 3} THEN GBP ELSE Keep

\* lines 778-845: sheet 6, Tier Comparison
v3_tiers ==
    <<OpCreateSheet("Tier Comparison")>>
    \o Label(6, "A1", "PLANNETIC PRICING TIERS")
    \o <<OpMerge(6, "A1:D1")>>
    \o write_headers(6, 3, 1, v3_tier_headers, v3_header_fill)
    \o write_rows(6, 4, v3_features, v3_features_fill, v3_features_format)
    \o <<OpWidth(6, "A", 28), OpWidth(6, "B", 20), OpWidth(6, "C", 20),
         OpWidth(6, "D", 20)>>

\* a variation: the message is printed before the workbook is saved
v3_save_print_first ==
    <<OpPrint("{OK} Excel file created: "
              \o "/Users/adeomosanya/Downloads/Plannetic-Pricing-Analysis-v3.xlsx"),
      OpSave("/Users/adeomosanya/Downloads/Plannetic-Pricing-Analysis-v3.xlsx")>>

\* a variation: v3 saves to the path v2 saves to
v3_output_path_shared == v2_output_path

\* lines 848-857
v3_output_path == "/Users/adeomosanya/Downloads/Plannetic-Pricing-Analysis-v3.xlsx"
v3_save ==
    <<OpSave(v3_output_path),
      OpPrint("{OK} Excel file created: " \o v3_output_path),
      OpPrint("\nCharts included:"),
      OpPrint("1. Summary - Cost comparison bar chart"),
      OpPrint("2. Competitor Pricing - Software costs bar + Tool stack pie"),
      OpPrint("3. Revenue Calculator - TCV line chart by # of firms"),
      OpPrint("4. Growth Projections - ARR line chart (3 scenarios)"),
      OpPrint("5. ROI Calculator - Monthly value analysis bar chart"),
      OpPrint("6. Tier Comparison - Feature matrix (no chart needed)")>>

v3_program ==
    v3_imports \o v3_summary \o v3_comp \o v3_calc \o v3_growth \o v3_roi
    \o v3_tiers \o v3_save

(***************************************************************************)
(* The run of one script.                                                  *)
(***************************************************************************)
VARIABLES
    script,     \* the script that runs
    inp,        \* the literal inputs of the run on drawn inputs (SpecBuilder)
    prog,       \* the operations of the script, in program order
    pc,         \* position of the next operation in the script
    exit,       \* Running, or the exit status of the process
    installed,  \* openpyxl can be imported
    installs,   \* number of pip install attempts
    sheets,     \* the titles of the workbook's sheets, in workbook order
    cells,      \* <<sheet, row, column>> -> value, number_format, fill
    merged,     \* merged ranges <<sheet, min_row, min_col, max_row, max_col>>
    charts,     \* the charts attached, in order of attachment
    widths,     \* <<sheet, column letter>> -> width
    freeze,     \* sheet -> freeze_panes
    stdout,     \* the lines printed
    files,      \* path -> the workbook as saved
    saveCalls,  \* number of calls of wb.save
    procs,      \* the processes of the scripts started together (SpecPar)
    own         \* script -> the path it saves to and the workbook it builds (SpecPar)

wbvars == <<sheets, cells, merged, charts, widths, freeze>>
vars == <<script, inp, prog, pc, exit, installed, installs, sheets, cells, merged,
          charts, widths, freeze, stdout, files, saveCalls, procs, own>>

Running == -1
EmptyMap == [x \in {} |-> 0]
NoInput == [shape |-> <<>>]

(***************************************************************************)
(* The table and chart code of a sheet (create-pricing-excel-v2.py, lines   *)
(* 153-217: create_sheet, the header loop, the row loop, chart1, and the    *)
(* save and print of lines 780-783) run on literal inputs drawn from small  *)
(* sets instead of the script's own literals: the titles of the two         *)
(* sheets, the number of headers, the length of each data row, the row the  *)
(* headers go to and the first price.                                       *)
(***************************************************************************)
MaxCols == 2
MaxRows == 2
SheetNames == {"X", "Pricing"}
AnchorRows == {1, 6}
Prices == {250, 300}

\* the sequences over S of length 0..n
RECURSIVE SeqsUpTo(_, _)
SeqsUpTo(S, n) ==
    IF n = 0 THEN {<<>>}
    ELSE LET shorter == SeqsUpTo(S, n - 1)
         IN  shorter \cup {Append(s, x) : s \in {t \in shorter : Len(t) = n - 1}, x \in S}

\* every row is one value short, right, or one value long
BuilderInputs ==
    UNION {[first : SheetNames, second : SheetNames, ncols : {n},
            shape : SeqsUpTo((n - 1)..(n + 1), MaxRows), anchor : AnchorRows,
            price : Prices] : n \in 1..MaxCols}

\* headers = ['Tier', 'Monthly', ...]
builder_header(j) ==
    IF j = 1 THEN "Tier" ELSE IF j = 2 THEN "Monthly" ELSE "Column " \o ToString(j)
builder_headers(in) == [j \in 1..in.ncols |-> builder_header(j)]

\* rows = [['Standard', 250, ...], ['Professional', 300, ...], ...]: row i
\* has in.shape[i] values, every value of the table a different one
builder_value(in, i, j) ==
    IF j = 1
    THEN Str(IF i = 1 THEN "Standard" ELSE IF i = 2 THEN "Professional"
             ELSE "Tier " \o ToString(i))
    ELSE Num(in.price + 50 * (i - 1) + 1000 * (j - 2))
builder_rows(in) ==
    [i \in 1..Len(in.shape) |-> [j \in 1..in.shape[i] |-> builder_value(in, i, j)]]

builder_header_fill == PatternFill("1E40AF")
builder_sheets(in) == <<OpWorkbook, OpTitle(1, in.first), OpCreateSheet(in.second)>>
\* a variation: the table is written only when every row has as many values
\* as there are headers
builder_table_all_or_nothing(in) ==
    IF \A i \in 1..Len(in.shape) : in.shape[i] = in.ncols
    THEN write_headers(2, in.anchor, 1, builder_headers(in), builder_header_fill)
         \o write_rows(2, in.anchor + 1, builder_rows(in), NoFill, NoFormat)
    ELSE <<>>
builder_table(in) ==
    write_headers(2, in.anchor, 1, builder_headers(in), builder_header_fill)
    \o write_rows(2, in.anchor + 1, builder_rows(in), NoFill, NoFormat)
builder_chart == <<OpChart(2, v2_chart1, "A15")>>
builder_output_path == "/tmp/out.xlsx"
builder_save ==
    <<OpSave(builder_output_path),
      OpPrint("{OK} Excel file created successfully: " \o builder_output_path)>>
builder_program(in) ==
    builder_sheets(in) \o builder_table(in) \o builder_chart \o builder_save

\* the operations of the script that runs
Program ==
    CASE script = "ce" -> ce_program
      [] script = "mema" -> mema_program
      [] script = "v1" -> v1_program
      [] script = "v2" -> v2_program
      [] script = "v3" -> v3_program
      [] script = "builder" -> builder_program(inp)
      [] OTHER -> <<>>

Active == exit = Running /\ pc <= Len(prog)
Cur == prog[pc]
At(kind) == Active /\ Cur.op = kind

\* the next statement; an uncaught exception ends the process with status 1
Advance == pc' = pc + 1 /\ exit' = exit
Raise == pc' = pc /\ exit' = 1

\* try: import openpyxl -- the except block is skipped when the import works
ImportTry ==
    /\ At("import_try")
    /\ pc' = IF installed THEN pc + 1 + Cur.skip ELSE pc + 1
    /\ UNCHANGED <<script, inp, prog, procs, own, exit, installed, installs, wbvars, stdout, files, saveCalls>>

\* subprocess.check_call(pip install): raises when pip fails; when it
\* succeeds the package is importable or (wrong environment) still is not
PipInstall ==
    /\ At("pip")
    /\ installs' = installs + 1
    /\ \E ok \in BOOLEAN, importable \in BOOLEAN :
          IF ok THEN installed' = importable /\ Advance
          ELSE installed' = installed /\ Raise
    /\ UNCHANGED <<script, inp, prog, procs, own, wbvars, stdout, files, saveCalls>>

\* import outside a try
Import ==
    /\ At("import")
    /\ installed
    /\ Advance
    /\ UNCHANGED <<script, inp, prog, procs, own, installed, installs, wbvars, stdout, files, saveCalls>>

ImportError ==
    /\ At("import")
    /\ ~installed
    /\ Raise
    /\ UNCHANGED <<script, inp, prog, procs, own, installed, installs, wbvars, stdout, files, saveCalls>>

\* wb = Workbook(): a workbook with the one sheet "Sheet"
NewWorkbook ==
    /\ At("workbook")
    /\ sheets' = <<"Sheet">>
    /\ Advance
    /\ UNCHANGED <<script, inp, prog, procs, own, installed, installs, cells, merged, charts,
                   widths, freeze, stdout, files, saveCalls>>

\* a variation: the title depends on the environment, here on whether the
\* package had to be installed
SetTitle_env ==
    /\ At("title")
    /\ sheets' = [sheets EXCEPT ![Cur.sh] =
                     IF installs > 0 THEN Cur.name \o " (installed)" ELSE Cur.name]
    /\ Advance
    /\ UNCHANGED <<script, inp, prog, procs, own, installed, installs, cells, merged, charts,
                   widths, freeze, stdout, files, saveCalls>>

\* ws.title = name
SetTitle ==
    /\ At("title")
    /\ sheets' = [sheets EXCEPT ![Cur.sh] =
                     IF @ = Cur.name THEN @ ELSE avoid_duplicate_name(sheets, Cur.name)]
    /\ Advance
    /\ UNCHANGED <<script, inp, prog, procs, own, installed, installs, cells, merged, charts,
                   widths, freeze, stdout, files, saveCalls>>

\* a variation: the new sheet is put before the existing sheets
CreateSheet_first ==
    /\ At("create_sheet")
    /\ sheets' = <<avoid_duplicate_name(sheets, Cur.name)>> \o sheets
    /\ Advance
    /\ UNCHANGED <<script, inp, prog, procs, own, installed, installs, cells, merged, charts,
                   widths, freeze, stdout, files, saveCalls>>

\* a variation: a name the workbook already has adds no sheet
CreateSheet_existing ==
    /\ At("create_sheet")
    /\ sheets' = IF \E i \in 1..Len(sheets) : sheets[i] = Cur.name
                 THEN sheets ELSE Append(sheets, Cur.name)
    /\ Advance
    /\ UNCHANGED <<script, inp, prog, procs, own, installed, installs, cells, merged, charts,
                   widths, freeze, stdout, files, saveCalls>>

\* wb.create_sheet(name): appended after all existing sheets
CreateSheet ==
    /\ At("create_sheet")
    /\ sheets' = Append(sheets, avoid_duplicate_name(sheets, Cur.name))
    /\ Advance
    /\ UNCHANGED <<script, inp, prog, procs, own, installed, installs, cells, merged, charts,
                   widths, freeze, stdout, files, saveCalls>>

\* the cell after ws.cell(row, column, value) and the attribute assignments
CellAfter(old, o) ==
    [value |-> IF o.v = KeepValue THEN old.value ELSE o.v,
     number_format |-> IF o.fmt = Keep THEN old.number_format ELSE o.fmt,
     fill |-> IF o.fill = Keep \/ (o.ifDefaultFill /\ old.fill # DefaultFill)
              THEN old.fill ELSE o.fill]

CellOf(cs, key) == IF key \in DOMAIN cs THEN cs[key] ELSE DefaultCell

\* a variation: row and column exchanged
WriteCell_transposed ==
    /\ At("cell")
    /\ LET key == <<Cur.sh, Cur.col, Cur.row>>
       IN  cells' = (key :> CellAfter(CellOf(cells, key), Cur)) @@ cells
    /\ Advance
    /\ UNCHANGED <<script, inp, prog, procs, own, installed, installs, sheets, merged, charts,
                   widths, freeze, stdout, files, saveCalls>>

WriteCell ==
    /\ At("cell")
    /\ LET key == <<Cur.sh, Cur.row, Cur.col>>
       IN  cells' = (key :> CellAfter(CellOf(cells, key), Cur)) @@ cells
    /\ Advance
    /\ UNCHANGED <<script, inp, prog, procs, own, installed, installs, sheets, merged, charts,
                   widths, freeze, stdout, files, saveCalls>>

\* ws.merge_cells(range)
MergeCells ==
    /\ At("merge")
    /\ merged' = merged \cup {<<Cur.sh>> \o RangeOf(Cur.range)}
    /\ Advance
    /\ UNCHANGED <<script, inp, prog, procs, own, installed, installs, sheets, cells, charts,
                   widths, freeze, stdout, files, saveCalls>>

\* a variation: attaching the chart creates the cell it is anchored at
AddChart_touch_anchor ==
    /\ At("chart")
    /\ charts' = Append(charts, [sh |-> Cur.sh, anchor |-> Cur.anchor,
                                 kind |-> Cur.chart.kind, series |-> Cur.chart.series])
    /\ LET key == <<Cur.sh, Coordinate(Cur.anchor)[1], Coordinate(Cur.anchor)[2]>>
       IN  cells' = (key :> CellOf(cells, key)) @@ cells
    /\ Advance
    /\ UNCHANGED <<script, inp, prog, procs, own, installed, installs, sheets, merged,
                   widths, freeze, stdout, files, saveCalls>>

\* ws.add_chart(chart, anchor)
AddChart ==
    /\ At("chart")
    /\ charts' = Append(charts, [sh |-> Cur.sh, anchor |-> Cur.anchor,
                                 kind |-> Cur.chart.kind, series |-> Cur.chart.series])
    /\ Advance
    /\ UNCHANGED <<script, inp, prog, procs, own, installed, installs, sheets, cells, merged,
                   widths, freeze, stdout, files, saveCalls>>

\* ws.column_dimensions[letter].width = w
SetColumnWidth ==
    /\ At("width")
    /\ widths' = (<<Cur.sh, Cur.letter>> :> Cur.w) @@ widths
    /\ Advance
    /\ UNCHANGED <<script, inp, prog, procs, own, installed, installs, sheets, cells, merged,
                   charts, freeze, stdout, files, saveCalls>>

\* ws.freeze_panes = a
FreezePanes ==
    /\ At("freeze")
    /\ freeze' = (Cur.sh :> Cur.a) @@ freeze
    /\ Advance
    /\ UNCHANGED <<script, inp, prog, procs, own, installed, installs, sheets, cells, merged,
                   charts, widths, stdout, files, saveCalls>>

\* wb.save(path) when the directory of path exists and is writable
Save ==
    /\ At("save")
    /\ saveCalls' = saveCalls + 1
    /\ files' = (Cur.path :> [sheets |-> sheets, cells |-> cells, charts |-> charts])
                @@ files
    /\ Advance
    /\ UNCHANGED <<script, inp, prog, procs, own, installed, installs, wbvars, stdout>>

\* wb.save(path) when it is not: the error is not caught
SaveError ==
    /\ At("save")
    /\ saveCalls' = saveCalls + 1
    /\ Raise
    /\ UNCHANGED <<script, inp, prog, procs, own, installed, installs, wbvars, stdout, files>>

\* print(msg)
PrintLine ==
    /\ At("print")
    /\ stdout' = Append(stdout, Cur.msg)
    /\ Advance
    /\ UNCHANGED <<script, inp, prog, procs, own, installed, installs, wbvars, files, saveCalls>>

\* the end of the script: exit status 0
Finish ==
    /\ exit = Running
    /\ pc = Len(prog) + 1
    /\ exit' = 0
    /\ UNCHANGED <<script, inp, prog, procs, own, pc, installed, installs, wbvars, stdout, files, saveCalls>>

Scripts == {"ce", "mema", "v1", "v2", "v3"}

Init ==
    /\ script \in Scripts
    /\ inp = NoInput
    /\ prog = Program
    /\ pc = 1
    /\ exit = Running
    /\ installed \in BOOLEAN
    /\ installs = 0
    /\ sheets = <<>>
    /\ cells = EmptyMap
    /\ merged = {}
    /\ charts = <<>>
    /\ widths = EmptyMap
    /\ freeze = EmptyMap
    /\ stdout = <<>>
    /\ files = EmptyMap
    /\ saveCalls = 0
    /\ procs = EmptyMap
    /\ own = EmptyMap

Next ==
    \/ ImportTry
    \/ PipInstall
    \/ Import
    \/ ImportError
    \/ NewWorkbook
    \/ SetTitle
    \/ CreateSheet
    \/ WriteCell
    \/ MergeCells
    \/ AddChart
    \/ SetColumnWidth
    \/ FreezePanes
    \/ Save
    \/ SaveError
    \/ PrintLine
    \/ Finish

Spec == Init /\ [][Next]_vars

(***************************************************************************)
(* The run of the table and chart code on drawn inputs.                    *)
(***************************************************************************)
InitBuilder ==
    /\ script = "builder"
    /\ inp \in BuilderInputs
    /\ prog = Program
    /\ pc = 1
    /\ exit = Running
    /\ installed = TRUE
    /\ installs = 0
    /\ sheets = <<>>
    /\ cells = EmptyMap
    /\ merged = {}
    /\ charts = <<>>
    /\ widths = EmptyMap
    /\ freeze = EmptyMap
    /\ stdout = <<>>
    /\ files = EmptyMap
    /\ saveCalls = 0
    /\ procs = EmptyMap
    /\ own = EmptyMap

NextBuilder ==
    \/ NewWorkbook
    \/ SetTitle
    \/ CreateSheet
    \/ WriteCell
    \/ AddChart
    \/ Save
    \/ SaveError
    \/ PrintLine
    \/ Finish

SpecBuilder == InitBuilder /\ [][NextBuilder]_vars

(***************************************************************************)
(* The workbook a script builds, as a function of its statements.          *)
(***************************************************************************)
NoWorkbook == [sheets |-> <<>>, cells |-> EmptyMap, charts |-> <<>>]

\* the effect of one statement on the sheets, the cells and the charts
Effect(wb, o) ==
    CASE o.op = "workbook" -> [wb EXCEPT !.sheets = <<"Sheet">>]
      [] o.op = "title" ->
            [wb EXCEPT !.sheets[o.sh] =
                IF @ = o.name THEN @ ELSE avoid_duplicate_name(wb.sheets, o.name)]
      [] o.op = "create_sheet" ->
            [wb EXCEPT !.sheets = Append(@, avoid_duplicate_name(@, o.name))]
      [] o.op = "cell" ->
            LET key == <<o.sh, o.row, o.col>>
            IN  [wb EXCEPT !.cells = (key :> CellAfter(CellOf(@, key), o)) @@ @]
      [] o.op = "chart" ->
            [wb EXCEPT !.charts = Append(@, [sh |-> o.sh, anchor |-> o.anchor,
                                             kind |-> o.chart.kind,
                                             series |-> o.chart.series])]
      [] OTHER -> wb

\* the effect of the statements lo..hi of p, in program order
RECURSIVE Effects(_, _, _, _)
Effects(wb, p, lo, hi) ==
    IF lo > hi THEN wb
    ELSE IF lo = hi THEN Effect(wb, p[lo])
    ELSE LET mid == (lo + hi) \div 2
             left == Effects(wb, p, lo, mid)
         IN  \* the first half is computed before the second half is entered
             IF Len(left.sheets) >= 0 THEN Effects(left, p, mid + 1, hi) ELSE left

\* the workbook after the first n statements of p
Built(p, n) == Effects(NoWorkbook, p, 1, n)
\* the path p saves to
SavePath(p) == p[CHOOSE i \in 1..Len(p) : p[i].op = "save"].path

(***************************************************************************)
(* The five scripts started together, each in a process of its own.  The   *)
(* processes share the file system and the Python environment; the         *)
(* workbook of a script lives in the memory of its process, so the         *)
(* statements that build it are taken together with its save.              *)
(***************************************************************************)
ProgramOf(s) ==
    CASE s = "ce" -> ce_program
      [] s = "mema" -> mema_program
      [] s = "v1" -> v1_program
      [] s = "v2" -> v2_program
      [] s = "v3" -> v3_program

\* the script starts with try: import openpyxl
Guarded(s) == ProgramOf(s)[1].op = "import_try"

Phase(p) == procs[p].phase
Goto(p, phase, status) ==
    procs' = [procs EXCEPT ![p] = [phase |-> phase, exit |-> status]]

\* try: import openpyxl
ParTry(p) ==
    /\ Phase(p) = "try"
    /\ Goto(p, IF installed THEN "ready" ELSE "except", Running)
    /\ UNCHANGED <<script, inp, prog, own, pc, exit, installed, installs, wbvars,
                   stdout, files, saveCalls>>

\* except ImportError: subprocess.check_call(pip install)
ParPip(p) ==
    /\ Phase(p) = "except"
    /\ installs' = installs + 1
    /\ \E ok \in BOOLEAN, importable \in BOOLEAN :
          IF ok THEN installed' = (installed \/ importable) /\ Goto(p, "import", Running)
          ELSE installed' = installed /\ Goto(p, "failed", 1)
    /\ UNCHANGED <<script, inp, prog, own, pc, exit, wbvars, stdout, files, saveCalls>>

\* the imports outside a try
ParImport(p) ==
    /\ Phase(p) = "import"
    /\ installed
    /\ Goto(p, "ready", Running)
    /\ UNCHANGED <<script, inp, prog, own, pc, exit, installed, installs, wbvars,
                   stdout, files, saveCalls>>

ParImportError(p) ==
    /\ Phase(p) = "import"
    /\ ~installed
    /\ Goto(p, "failed", 1)
    /\ UNCHANGED <<script, inp, prog, own, pc, exit, installed, installs, wbvars,
                   stdout, files, saveCalls>>

\* the workbook built in the memory of the process, wb.save(path), which
\* replaces the file at path, and the prints that end the script
ParSave(p) ==
    /\ Phase(p) = "ready"
    /\ files' = (own[p].path :> own[p].workbook) @@ files
    /\ saveCalls' = saveCalls + 1
    /\ Goto(p, "done", 0)
    /\ UNCHANGED <<script, inp, prog, own, pc, exit, installed, installs, wbvars, stdout>>

ParSaveError(p) ==
    /\ Phase(p) = "ready"
    /\ saveCalls' = saveCalls + 1
    /\ Goto(p, "failed", 1)
    /\ UNCHANGED <<script, inp, prog, own, pc, exit, installed, installs, wbvars,
                   stdout, files>>

InitPar ==
    /\ script = "all"
    /\ inp = NoInput
    /\ prog = <<>>
    /\ pc = 1
    /\ exit = Running
    /\ installed \in BOOLEAN
    /\ installs = 0
    /\ sheets = <<>>
    /\ cells = EmptyMap
    /\ merged = {}
    /\ charts = <<>>
    /\ widths = EmptyMap
    /\ freeze = EmptyMap
    /\ stdout = <<>>
    /\ files = EmptyMap
    /\ saveCalls = 0
    /\ procs = [s \in Scripts |->
                   [phase |-> IF Guarded(s) THEN "try" ELSE "import", exit |-> Running]]
    /\ own = [s \in Scripts |->
                 [path |-> SavePath(ProgramOf(s)),
                  workbook |-> Built(ProgramOf(s), Len(ProgramOf(s)))]]

NextPar ==
    \E p \in Scripts :
        \/ ParTry(p)
        \/ ParPip(p)
        \/ ParImport(p)
        \/ ParImportError(p)
        \/ ParSave(p)
        \/ ParSaveError(p)

SpecPar == InitPar /\ [][NextPar]_vars

(***************************************************************************)
(* Properties.                                                             *)
(***************************************************************************)
\* the value of a cell; None when no value was assigned to it
ValueAt(sh, row, col) == CellOf(cells, <<sh, row, col>>).value
\* the cells of a sheet that exist in the workbook
CellsOf(sh) == {k \in DOMAIN cells : k[1] = sh}

\* every data row of the drawn table has as many values as there are headers
GoodShape == \A i \in 1..Len(inp.shape) : inp.shape[i] = inp.ncols
\* the header loop and the row loop of the drawn table have run
TableDone == pc > Len(builder_sheets(inp)) + Len(builder_table(inp))
\* the header cells hold the headers, in order
HeadersWritten ==
    \A j \in 1..inp.ncols : ValueAt(2, inp.anchor, j) = Str(builder_header(j))
\* value j of data row i is in row anchor + i, column j
RowsWritten ==
    \A i \in 1..Len(inp.shape) : \A j \in 1..inp.shape[i] :
        ValueAt(2, inp.anchor + i, j) = builder_value(inp, i, j)
\* the cells the two loops are to write
TableCells ==
    {<<2, inp.anchor, j>> : j \in 1..inp.ncols}
    \cup UNION {{<<2, inp.anchor + i, j>> : j \in 1..inp.shape[i]} :
                i \in 1..Len(inp.shape)}
\* the only statement of the run that can raise is wb.save
OnlySaveFails == exit = 1 => prog[pc].op = "save"

\* C1: a table whose rows all have len(headers) values is written without an
\* error, the headers in the anchor row and value j of data row i in row
\* anchor_row + i, column j, and the len(rows) + 1 rows from the anchor row
\* on are the only rows of the sheet that hold cells.
C1_TableLayout ==
    (script = "builder" /\ GoodShape) =>
        /\ OnlySaveFails
        /\ TableDone =>
            /\ HeadersWritten
            /\ RowsWritten
            /\ CellsOf(2) = {<<2, r, c>> : r \in inp.anchor..(inp.anchor + Len(inp.shape)),
                                           c \in 1..inp.ncols}
            /\ \A k \in CellsOf(2) : cells[k].value # None

\* C1, reached: headers [Tier, Monthly] and rows [Standard, 250],
\* [Professional, 300] at (1, 1), saved
C1_Witness ==
    /\ script = "builder" /\ exit = 0
    /\ inp.anchor = 1 /\ inp.ncols = 2 /\ inp.shape = <<2, 2>>
    /\ ValueAt(2, 1, 1) = Str("Tier") /\ ValueAt(2, 1, 2) = Str("Monthly")
    /\ ValueAt(2, 2, 1) = Str("Standard") /\ ValueAt(2, 2, 2) = Num(250)
    /\ ValueAt(2, 3, 1) = Str("Professional") /\ ValueAt(2, 3, 2) = Num(300)

C4_StatusFill ==
    script = "ce" =>
        \A k \in CellsOf(1) :
            k[2] >= 2 =>
                cells[k].fill =
                    IF k[3] # 7 THEN "00000000"
                    ELSE CASE cells[k].value = Str("Ready") -> "00C6EFCE"
                           [] cells[k].value = Str("Pending") -> "00FFEB9C"
                           [] cells[k].value = Str("Confirm") -> "00BDD7EE"
                           [] cells[k].value = Str("Partial") -> "00FCE4D6"
                           [] OTHER -> "00000000"

\* C4, reached: the saved sheet has a green Ready cell, and a Status cell
\* 'Ready - add more if needed' and a Status cell 'N/A' with the default fill
C4_Witness ==
    /\ script = "ce" /\ exit = 0
    /\ \E k \in CellsOf(1) :
          k[3] = 7 /\ cells[k].value = Str("Ready") /\ cells[k].fill = "00C6EFCE"
    /\ \E k \in CellsOf(1) :
          /\ k[3] = 7 /\ cells[k].value = Str("Ready - add more if needed")
          /\ cells[k].fill = "00000000"
    /\ \E k \in CellsOf(1) :
          k[3] = 7 /\ cells[k].value = Str("N/A") /\ cells[k].fill = "00000000"

\* C5: a script calls wb.save at most once, a script that ends with status 0
\* has called it exactly once, and after the call no step changes the
\* workbook (its sheets, cells, merged ranges, charts, widths, frozen panes).
C5_SavedOnceAndLast ==
    [][/\ saveCalls' <= 1
       /\ exit' = 0 => saveCalls' = 1
       /\ saveCalls >= 1 => UNCHANGED wbvars]_vars

\* C5, reached: v2 has ended with its four charts attached and one save
C5_Witness ==
    /\ script = "v2" /\ exit = 0 /\ saveCalls = 1
    /\ Len(charts) = 4 /\ Len(sheets) = 6
    /\ DOMAIN files = {v2_output_path}

\* the formula without its '$' signs
RECURSIVE WithoutDollars(_, _)
WithoutDollars(s, i) ==
    IF i > Len(s) THEN ""
    ELSE (IF CharAt(s, i) = "$" THEN "" ELSE CharAt(s, i)) \o WithoutDollars(s, i + 1)
\* the positions where a cell reference starts: letters that follow no
\* letter and are followed by a digit (the letters of SUM( and ROUND( are not)
RefStarts(s) ==
    {i \in 1..Len(s) :
        /\ IsLetter(CharAt(s, i))
        /\ (i = 1 \/ ~IsLetter(CharAt(s, i - 1)))
        /\ LetterRunEnd(s, i) < Len(s)
        /\ IsDigit(CharAt(s, LetterRunEnd(s, i) + 1))}
RefEnd(s, i) == DigitRunEnd(s, LetterRunEnd(s, i) + 1)
RefAt(s, i) == Coordinate(SubSeq(s, i, RefEnd(s, i)))
\* the reference at i is the first corner of a range B7:B13
IsRange(s, i) ==
    /\ RefEnd(s, i) + 2 <= Len(s)
    /\ CharAt(s, RefEnd(s, i) + 1) = ":"
    /\ RefEnd(s, i) + 2 \in RefStarts(s)
\* the cells <<row, column>> a formula refers to
FormulaRefs(f) ==
    LET s == WithoutDollars(f, 1)
    IN  UNION {IF IsRange(s, i)
               THEN {<<r, c>> : r \in RefAt(s, i)[1]..RefAt(s, RefEnd(s, i) + 2)[1],
                                c \in RefAt(s, i)[2]..RefAt(s, RefEnd(s, i) + 2)[2]}
               ELSE {RefAt(s, i)} : i \in RefStarts(s)}
\* openpyxl stores a str that starts with '=' and is longer as a formula
IsFormula(v) == v.k = "str" /\ Len(v.s) > 1 /\ StartsWith(v.s, "=")
IsNumber(v) == v.k \in {"int", "float"}
\* the cells of the workbook whose formula refers to a cell that holds
\* neither a number nor a formula
BrokenFormulas ==
    {k \in DOMAIN cells :
        /\ IsFormula(cells[k].value)
        /\ \E r \in FormulaRefs(cells[k].value.s) :
              ~(IsNumber(ValueAt(k[1], r[1], r[2])) \/ IsFormula(ValueAt(k[1], r[1], r[2])))}

\* C6: in the workbook a pricing script (v1, v2, v3) has saved, every cell a
\* formula refers to holds a number or another formula, never a header, a
\* text label, an empty string or nothing.
C6_WorkingFormulas ==
    (script \in {"v1", "v2", "v3"} /\ exit = 0) => BrokenFormulas = {}

\* C7: when v2 or v3 attaches a chart, every cell of the chart's data
\* reference and of its categories reference on that sheet has a value.
C7_ChartRangesWritten ==
    [][(script \in {"v2", "v3"} /\ Len(charts') = Len(charts) + 1) =>
          \A k \in ChartDataCells(charts'[Len(charts')])
                   \cup ChartCategoryCells(charts'[Len(charts')]) :
              k[1] = charts'[Len(charts')].sh /\ CellOf(cells, k).value # None]_vars

\* C7, reached: v3 has attached its six charts
C7_Witness == script = "v3" /\ Len(charts) = 6 /\ exit = Running

\* the chart of the drawn table has been attached
ChartDone ==
    pc > Len(builder_sheets(inp)) + Len(builder_table(inp)) + Len(builder_chart)

\* C8: the chart attached with data Reference(min_col=2, min_row=6,
\* max_row=12) and categories Reference(min_col=1, min_row=7, max_row=12) is
\* the one chart of its sheet and refers to rows 6-12 of column 2 and rows
\* 7-12 of column 1, whatever the cells hold (the drawn table puts headers,
\* values or nothing there).
C8_ChartRanges ==
    (script = "builder" /\ ChartDone) =>
        /\ Len(charts) = 1
        /\ charts[1].sh = 2
        /\ ChartDataCells(charts[1]) = {<<2, r, 2>> : r \in 6..12}
        /\ ChartCategoryCells(charts[1]) = {<<2, r, 1>> : r \in 7..12}

\* C8, reached: the chart is attached over a header, one price and cells
\* that do not exist
C8_Witness ==
    /\ script = "builder" /\ Len(charts) = 1
    /\ ValueAt(2, 6, 2) = Str("Monthly") /\ ValueAt(2, 7, 2) = Num(300)
    /\ <<2, 8, 2>> \notin DOMAIN cells /\ <<2, 7, 1>> \in DOMAIN cells

\* C9: the step that attaches a chart leaves every cell of every sheet as it
\* was (value, number format and fill) and creates no cell.
C9_AttachKeepsCells ==
    [][Len(charts') # Len(charts) => cells' = cells]_vars

\* C9, reached: the first chart of v3 is attached to a sheet that has cells
C9_Witness ==
    /\ script = "v3" /\ Len(charts) = 1 /\ CellsOf(charts[1].sh) # {}
    /\ prog[pc - 1].op = "chart"

\* the printed lines that name a workbook file
SuccessLines == {i \in 1..Len(stdout) : Contains(stdout[i], ".xlsx")}

\* C10: a line naming the workbook file is printed only when the file has
\* been saved, and names the saved path; a script that ends with status 0
\* has printed it; when wb.save raises, nothing has been printed and the
\* process ends with status 1.
C10_MessageAfterSave ==
    /\ \A i \in SuccessLines : \E p \in DOMAIN files : Contains(stdout[i], p)
    /\ exit = 0 => SuccessLines # {}
    /\ (saveCalls >= 1 /\ files = EmptyMap) => (exit = 1 /\ stdout = <<>>)

\* C10, reached: wb.save of v3 has raised
C10_Witness ==
    /\ script = "v3" /\ saveCalls = 1 /\ files = EmptyMap /\ exit = 1
    /\ prog[pc].op = "save"


(***************************************************************************)
(* The imports                                                             *)
(***************************************************************************)
\* C11 as stated: in each of the five scripts a script that ended on a
\* failed import of openpyxl has attempted an install first.
C11_EveryScriptInstalls ==
    (exit = 1 /\ ~installed /\ sheets = <<>>) => installs >= 1

\* C11, amended: the two questionnaire scripts attempt an install when the
\* import fails and import before any workbook is built; the three pricing
\* scripts import unguarded, never attempt an install, and a failed import
\* ends them at their first statement.
C11_QuestionnairesInstall ==
    /\ script \in {"ce", "mema"} =>
          /\ (exit = 1 /\ ~installed) => installs >= 1
          /\ sheets # <<>> => installed
    /\ script \in {"v1", "v2", "v3"} =>
          /\ installs = 0
          /\ ~installed => (pc = 1 /\ sheets = <<>> /\ exit \in {Running, 1})

\* C11, reached: the import failed, the install made the package importable
\* and the questionnaire was saved
C11_Witness ==
    script = "ce" /\ installs = 1 /\ installed /\ exit = 0 /\ saveCalls = 1

\* C12: a questionnaire script attempts at most one install, and while the
\* package is not importable no workbook exists, no file is written and
\* nothing is printed; a script that ended in the import section ended with
\* status 1 and an empty workbook.
C12_NoRetryFailFast ==
    script \in {"ce", "mema"} =>
        /\ installs <= 1
        /\ ~installed => (sheets = <<>> /\ files = EmptyMap /\ stdout = <<>> /\ exit # 0)
        /\ (exit = 1 /\ prog[pc].op \in {"pip", "import"}) =>
              (sheets = <<>> /\ cells = EmptyMap /\ files = EmptyMap /\ stdout = <<>>)

\* C12, reached: the install succeeded, the import after it still failed
C12_Witness ==
    /\ script = "mema" /\ installs = 1 /\ ~installed /\ exit = 1
    /\ prog[pc].op = "import"

(***************************************************************************)
(* The shape of the tables                                                 *)
(***************************************************************************)
\* a table: its sheet, its header row, its first column, the number of its
\* headers and its last data row
Table(sh, hrow, c0, ncols, last) ==
    [sh |-> sh, hrow |-> hrow, c0 |-> c0, ncols |-> ncols, last |-> last]
\* the tables under a header row that each script writes
Tables ==
    CASE script = "ce" -> {Table(1, 1, 1, 7, 89)}
      [] script = "mema" -> {Table(1, 1, 1, 5, 89)}
      [] script = "v1" ->
            {Table(1, 17, 1, 6, 21), Table(2, 12, 1, 7, 28), Table(3, 11, 1, 6, 16),
             Table(3, 21, 1, 6, 26), Table(3, 31, 1, 6, 36), Table(4, 5, 1, 5, 13),
             Table(4, 18, 1, 4, 26), Table(5, 3, 1, 4, 24)}
      [] script = "v2" ->
            {Table(1, 19, 1, 6, 23), Table(2, 6, 1, 5, 12), Table(2, 34, 1, 4, 41),
             Table(3, 12, 1, 7, 28), Table(4, 10, 1, 6, 15), Table(4, 19, 1, 6, 24),
             Table(4, 28, 1, 6, 33), Table(4, 4, 8, 4, 9), Table(6, 3, 1, 4, 30)}
      [] script = "v3" ->
            {Table(1, 18, 1, 2, 22), Table(1, 27, 1, 6, 31), Table(2, 6, 1, 5, 12),
             Table(2, 34, 1, 4, 41), Table(3, 12, 1, 7, 28), Table(3, 11, 9, 3, 15),
             Table(4, 10, 1, 6, 15), Table(4, 19, 1, 6, 24), Table(4, 28, 1, 6, 33),
             Table(4, 4, 8, 4, 9), Table(6, 3, 1, 4, 30)}
      [] OTHER -> {}
\* the script has left the sheet of the table
SheetLeft(t) == Len(sheets) > t.sh \/ exit = 0
\* every header column holds a value in the header row and in every data
\* row, and the column after the last header holds none
Rectangular(t) ==
    \A row \in t.hrow..t.last :
        /\ \A col \in t.c0..(t.c0 + t.ncols - 1) : ValueAt(t.sh, row, col) # None
        /\ ValueAt(t.sh, row, t.c0 + t.ncols) = None

PrintedLine(i) == prog[Len(prog) - 6 + i].msg
\* the line names the sheet at its position
NamesSheet(line, i, name) == StartsWith(line, ToString(i) \o ". " \o name \o " - ")
\* the number of charts attached to a sheet
ChartsOn(cs, sh) == Cardinality({i \in 1..Len(cs) : cs[i].sh = sh})
\* the charts the printed list names, per sheet
ListedCharts ==
    CASE script = "v2" -> <<0, 2, 0, 1, 1, 0>>
      [] script = "v3" -> <<1, 2, 1, 1, 1, 0>>
      [] OTHER -> <<0, 0, 0, 0, 0, 0>>

\* C14: in v2 and v3 every sheet stands at the position and under the name
\* of its line in the printed list, from its creation on (sheets are
\* appended); no sheet ever has more charts than the list names; and the
\* saved workbook holds exactly the six listed sheets, in the printed order,
\* each with exactly the listed number of charts, the six lines being the
\* last six printed.
C14_SheetsAndChartsAsListed ==
    script \in {"v2", "v3"} =>
        /\ \A i \in 1..Len(sheets) :
              \/ i = 1 /\ sheets[i] = "Sheet"
              \/ i <= 6 /\ NamesSheet(PrintedLine(i), i, sheets[i])
        /\ \A sh \in 1..6 : ChartsOn(charts, sh) <= ListedCharts[sh]
        /\ exit = 0 =>
              LET wb == files[prog[Len(prog) - 8].path]
              IN  /\ Len(wb.sheets) = 6
                  /\ \A i \in 1..6 :
                        /\ NamesSheet(stdout[Len(stdout) - 6 + i], i, wb.sheets[i])
                        /\ ChartsOn(wb.charts, i) = ListedCharts[i]
                  /\ Len(wb.charts) = (IF script = "v2" THEN 4 ELSE 6)

\* C14, reached: v2 has printed its list over the saved workbook
C14_Witness ==
    /\ script = "v2" /\ exit = 0 /\ Len(stdout) = 8
    /\ stdout[8] = "6. Tier Comparison - Feature matrix"
    /\ v2_output_path \in DOMAIN files
    /\ files[v2_output_path].sheets[6] = "Tier Comparison"


(***************************************************************************)
(* Determinism                                                             *)
(***************************************************************************)
\* the number of leading statements after which the workbook in memory is
\* compared at every step
MaxCompared == 12

Saved == {p \in DOMAIN procs : procs[p].phase = "done"}

\* C15: with the five scripts running together, in every interleaving, once
\* a script has saved, the file at its output path holds the workbook the
\* script builds when it runs alone, and stays so whatever the other
\* processes do afterwards; the only files are the outputs of the scripts
\* that have saved.
C15_OutputsIndependent ==
    script = "all" =>
        /\ \A p \in Saved :
              own[p].path \in DOMAIN files /\ files[own[p].path] = own[p].workbook
        /\ \A path \in DOMAIN files : \E p \in Saved : own[p].path = path

\* C15, reached: the five scripts have ended with status 0 and left five files
C15_Witness ==
    /\ script = "all"
    /\ \A p \in Scripts : procs[p].phase = "done" /\ procs[p].exit = 0
    /\ Cardinality(DOMAIN files) = 5


(***************************************************************************)
(* The rows the formulas refer to                                          *)
(***************************************************************************)
\* the cells <<row, column>> the formula of a cell refers to
RefsOf(sh, row, col) ==
    IF IsFormula(ValueAt(sh, row, col)) THEN FormulaRefs(ValueAt(sh, row, col).s) ELSE {}
\* those of them that lie in the given rows
RefsIn(sh, row, col, rows) == {r \in RefsOf(sh, row, col) : r[1] \in rows}
\* the row of the given rows that carries the label in column A
RowOf(sh, rows, label) ==
    IF \E r \in rows : ValueAt(sh, r, 1) = Str(label)
    THEN CHOOSE r \in rows : ValueAt(sh, r, 1) = Str(label)
    ELSE 0

\* the rows of the ROI Analysis table on the ROI Calculator sheet
RoiRows == 33..44
Roi(label) == RowOf(5, RoiRows, label)
RoiTotalHours ==
    Roi(IF script = "v2" THEN "Total Hours Saved" ELSE "Total Hours Saved (all clients)")
RoiTotal == Roi(IF script = "v2" THEN "TOTAL MONTHLY BENEFIT" ELSE "TOTAL BENEFIT")
\* the ROI Calculator sheet is complete
RoiWritten == script \in {"v2", "v3"} /\ (Len(sheets) >= 6 \/ exit = 0)

\* C17: in the ROI Analysis table of v2 and v3 every formula refers to the
\* rows that hold the metrics its description names: an Annual cell to the
\* Monthly cell of its own row, Total Hours Saved to Hours Saved per Client
\* (and, in v2, Clients per Month), Value of Time Saved to Total Hours
\* Saved, Total Benefit to Software Savings and Value of Time Saved, Net
\* Benefit to Total Benefit and Plannetic Cost, ROI % to Net Benefit and
\* Plannetic Cost.
C17_RoiFormulasReferToTheirRows ==
    RoiWritten =>
        /\ \A r \in RoiRows :
              (IsFormula(ValueAt(5, r, 3)) /\ r # Roi("ROI %")) =>
                  RefsIn(5, r, 3, RoiRows) \subseteq {<<r, 2>>}
        /\ RefsIn(5, RoiTotalHours, 2, RoiRows) =
              {<<Roi("Hours Saved per Client"), 2>>}
              \cup (IF script = "v2" THEN {<<Roi("Clients per Month"), 2>>} ELSE {})
        /\ RefsIn(5, Roi("Value of Time Saved"), 2, RoiRows) = {<<RoiTotalHours, 2>>}
        /\ RefsIn(5, RoiTotal, 2, RoiRows) =
              {<<Roi("Software Savings"), 2>>, <<Roi("Value of Time Saved"), 2>>}
        /\ RefsIn(5, Roi("NET BENEFIT"), 2, RoiRows) =
              {<<RoiTotal, 2>>, <<Roi("Plannetic Cost"), 2>>}
        /\ RefsIn(5, Roi("ROI %"), 2, RoiRows) =
              {<<Roi("NET BENEFIT"), 2>>, <<Roi("Plannetic Cost"), 2>>}

\* the rows of the Monthly Savings Analysis table on the v2 Summary sheet
SavingsRows == 28..33
Savings(label) == RowOf(1, SavingsRows, label)

\* C18: in the Monthly Savings Analysis table of v2, Monthly Savings refers
\* to the Competitor Stack Cost and Plannetic Standard rows, Annual Savings
\* to the Monthly Savings row, and Savings % to the Monthly Savings and
\* Competitor Stack Cost rows.
C18_SavingsFormulasReferToTheirRows ==
    (script = "v2" /\ (Len(sheets) >= 2 \/ exit = 0)) =>
        /\ RefsOf(1, Savings("Monthly Savings"), 2) =
              {<<Savings("Competitor Stack Cost"), 2>>, <<Savings("Plannetic Standard"), 2>>}
        /\ RefsOf(1, Savings("Annual Savings"), 2) = {<<Savings("Monthly Savings"), 2>>}
        /\ RefsOf(1, Savings("Savings %"), 2) =
              {<<Savings("Monthly Savings"), 2>>, <<Savings("Competitor Stack Cost"), 2>>}

\* the rows of the main table and of the milestone table of the v3 Revenue
\* Calculator
MainRows == 13..28
MilestoneRows == 12..15

\* C19: each milestone row of the v3 Revenue Calculator takes its 2-year
\* and 3-year contract values from the row of the main table whose firm
\* count is the milestone's.
C19_MilestonesReferToTheirFirms ==
    (script = "v3" /\ (Len(sheets) >= 4 \/ exit = 0)) =>
        \A m \in MilestoneRows :
            \A col \in {10, 11} :
                \A r \in RefsOf(3, m, col) :
                    r[1] \in MainRows /\ ValueAt(3, r[1], 1) = ValueAt(3, m, 9)

\* the chart helper table beside the ROI Analysis table: its rows, its
\* label column, and the ROI Analysis label that each of its labels names
HelperRows == IF script = "v2" THEN 34..35 ELSE 34..38
HelperLabelCol == IF script = "v2" THEN 6 ELSE 5
HelperMetric(label) ==
    CASE label = Str("Software Savings") -> Roi("Software Savings")
      [] label = Str("Time Value Saved") -> Roi("Value of Time Saved")
      [] label = Str("Total Benefit") -> RoiTotal
      [] label = Str("Plannetic Cost") -> Roi("Plannetic Cost")
      [] label = Str("Net Benefit") -> Roi("NET BENEFIT")
      [] OTHER -> 0

\* C20: every value cell of the chart helper table refers to the ROI
\* Analysis row that carries its label, the first value column to Monthly
\* (column B) and, in v3, the second to Annual (column C).
C20_HelperRefersToItsLabels ==
    RoiWritten =>
        \A h \in HelperRows :
            \A col \in (HelperLabelCol + 1)..7 :
                RefsOf(5, h, col) =
                    {<<HelperMetric(ValueAt(5, h, HelperLabelCol)),
                       IF col = HelperLabelCol + 1 THEN 2 ELSE 3>>}


(***************************************************************************)
(* The number formats and fills of the tables                              *)
(***************************************************************************)
\* the number format and the fill of a cell of the workbook
FormatAt(sh, row, col) == CellOf(cells, <<sh, row, col>>).number_format
FillAt(sh, row, col) == CellOf(cells, <<sh, row, col>>).fill
\* a number format that shows a percentage
IsPercentFormat(f) == Contains(f, "%")
\* the labels of the ROI Analysis rows that hold hours or client counts
RoiHoursLabels ==
    {Str("Hours Saved per Client"), Str("Clients per Month"),
     Str("Total Hours Saved"), Str("Total Hours Saved (all clients)")}

\* C21: in the ROI Analysis table of v2 and v3 the value cells of the row
\* labelled 'ROI %' carry the percentage number format and not the currency
\* format, and a value cell carries the hours format exactly when its row
\* holds an hour or client count.
C21_RoiRowFormats ==
    RoiWritten =>
        /\ \A c \in {2, 3} :
              IsFormula(ValueAt(5, Roi("ROI %"), c)) =>
                  /\ IsPercentFormat(FormatAt(5, Roi("ROI %"), c))
                  /\ FormatAt(5, Roi("ROI %"), c) # GBP
        /\ \A r \in RoiRows : \A c \in {2, 3} :
              IsFormula(ValueAt(5, r, c)) =>
                  (FormatAt(5, r, c) = "0.0" <=> ValueAt(5, r, 1) \in RoiHoursLabels)

\* the index of the Tier Comparison sheet, 0 while it does not exist
TierSheet ==
    IF \E i \in 1..Len(sheets) : sheets[i] = "Tier Comparison"
    THEN CHOOSE i \in 1..Len(sheets) : sheets[i] = "Tier Comparison"
    ELSE 0
\* the rows of the feature table, under the headers of row 3
TierRows == 4..30
\* the Tier Comparison sheet is complete
TierWritten ==
    /\ script \in {"v1", "v2", "v3"}
    /\ TierSheet # 0
    /\ (Len(sheets) > TierSheet \/ exit = 0)

\* C22: in the Tier Comparison sheet of the three pricing workbooks a cell
\* carries the currency number format exactly when it is the Standard or
\* the Professional cell of the '2-Year TCV' row or of the '3-Year TCV' row.
C22_CurrencyOnTcvRowsOnly ==
    TierWritten =>
        \A r \in TierRows : \A c \in 1..4 :
            FormatAt(TierSheet, r, c) = GBP <=>
                /\ ValueAt(TierSheet, r, 1) \in {Str("2-Year TCV"), Str("3-Year TCV")}
                /\ c \in {2, 3}

(***************************************************************************)
(* The ARR comparison table of the Growth Projections sheet                *)
(***************************************************************************)
\* the row of the section title of a scenario, 0 while it is not written
ScenarioTitleRow(name) ==
    IF \E t \in 1..40 : IsStr(ValueAt(4, t, 1)) /\ StartsWith(ValueAt(4, t, 1).s, name)
    THEN CHOOSE t \in 1..40 : IsStr(ValueAt(4, t, 1)) /\ StartsWith(ValueAt(4, t, 1).s, name)
    ELSE 0
\* the column of a header in a header row, 0 when the row does not have it
HeaderCol(sh, row, cols, header) ==
    IF \E c \in cols : ValueAt(sh, row, c) = Str(header)
    THEN CHOOSE c \in cols : ValueAt(sh, row, c) = Str(header)
    ELSE 0
\* the row of a year in the rows given, 0 when there is none
YearRow(rows, col, i) ==
    IF \E r \in rows : ValueAt(4, r, col) = Num(i)
    THEN CHOOSE r \in rows : ValueAt(4, r, col) = Num(i)
    ELSE 0
\* the ARR cell of year i in the table of a scenario: the headers are under
\* the section title and the five years under the headers
ScenarioArr(name, i) ==
    LET t == ScenarioTitleRow(name)
    IN  <<YearRow((t + 2)..(t + 6), 1, i), HeaderCol(4, t + 1, 1..6, "ARR")>>
\* the scenarios, by the header of their column in the comparison table
ScenarioOf ==
    [h \in {"Conservative", "Moderate", "Aggressive"} |->
        CASE h = "Conservative" -> "CONSERVATIVE"
          [] h = "Moderate" -> "MODERATE"
          [] OTHER -> "AGGRESSIVE"]
\* the first data rows the comparison table assumes
ScenarioFirstRow ==
    [h \in {"Conservative", "Moderate", "Aggressive"} |->
        CASE h = "Conservative" -> 11
          [] h = "Moderate" -> 20
          [] OTHER -> 29]
\* the cell of year i and of a scenario in the comparison table
ArrCell(h, i) == <<YearRow(5..9, 8, i), HeaderCol(4, 4, 8..11, h)>>

\* C23: in the Growth Projections sheet of v2 and v3, for every year 1..5
\* the Conservative, Moderate and Aggressive cells of the ARR comparison
\* table refer to the ARR cell of that year in the table of that scenario,
\* and rows 11, 20 and 29 are the first data rows of the three tables.
C23_ArrComparisonRefersToScenarios ==
    script \in {"v2", "v3"} =>
        \A h \in DOMAIN ScenarioOf : \A i \in 1..5 :
            IsFormula(ValueAt(4, ArrCell(h, i)[1], ArrCell(h, i)[2])) =>
                /\ RefsOf(4, ArrCell(h, i)[1], ArrCell(h, i)[2]) =
                      {ScenarioArr(ScenarioOf[h], i)}
                /\ ScenarioArr(ScenarioOf[h], 1)[1] = ScenarioFirstRow[h]
                /\ ScenarioTitleRow(ScenarioOf[h]) = ScenarioFirstRow[h] - 2
\* the last cell of the comparison table is written
C23_Witness ==
    /\ script \in {"v2", "v3"}
    /\ IsFormula(ValueAt(4, ArrCell("Aggressive", 5)[1], ArrCell("Aggressive", 5)[2]))
    /\ ArrCell("Aggressive", 5) = <<9, 11>>
    /\ ScenarioArr("AGGRESSIVE", 5) = <<33, 6>>

(***************************************************************************)
(* The revenue table of the Revenue Calculator sheet                       *)
(***************************************************************************)
\* the index of the sheet with the title, 0 while it does not exist
SheetNamed(title) ==
    IF \E i \in 1..Len(sheets) : sheets[i] = title
    THEN CHOOSE i \in 1..Len(sheets) : sheets[i] = title
    ELSE 0
CalcSheet == SheetNamed("Revenue Calculator")
\* the rows of the 16 firm counts, under the headers of row 12
FirmRows == 13..28
\* the formula of column c in the row r of the revenue table
CalcFormula(r, c) ==
    CASE c = 2 -> "=A" \o ToString(r) \o "*$B$5*24"
      [] c = 3 -> "=A" \o ToString(r) \o "*$B$6*24"
      [] c = 4 -> "=A" \o ToString(r) \o "*$B$5*36"
      [] c = 5 -> "=A" \o ToString(r) \o "*$B$6*36"
      [] c = 6 -> "=E" \o ToString(r) \o "-B" \o ToString(r)
      [] OTHER -> "=A" \o ToString(r) \o "*($B$5+$B$6)/2"
\* the cells a formula of the sheet reads, directly or through one formula
ReadsOf(sh, row, col) ==
    RefsOf(sh, row, col)
    \cup UNION {RefsOf(sh, k[1], k[2]) : k \in RefsOf(sh, row, col)}
\* the prices of the input cells B5, B6 and B7, as they would be spelled
InputPrices ==
    {ToString(ValueAt(CalcSheet, r, 2).n) : r \in {r \in 5..7 : IsNumber(ValueAt(CalcSheet, r, 2))}}

\* the cell of row r and column c of the revenue table is linked: it holds
\* the formula of its column, reads the firm count of its row and the
\* numbers of B5 and B6, and spells no price
CellLinked(r, c) ==
    LET reads == ReadsOf(CalcSheet, r, c)
    IN  /\ ValueAt(CalcSheet, r, c) = Str(CalcFormula(r, c))
        /\ <<r, 1>> \in reads
        /\ IsNumber(ValueAt(CalcSheet, r, 1))
        /\ {k \in reads : k[1] \notin {5, 6}} \subseteq {<<r, 1>>, <<r, 2>>, <<r, 5>>}
        /\ {k \in reads : k[1] \in {5, 6}} \subseteq
              {k \in {<<5, 2>>, <<6, 2>>} : IsNumber(ValueAt(CalcSheet, k[1], k[2]))}
        /\ \A p \in InputPrices : ~Contains(ValueAt(CalcSheet, r, c).s, p)
\* the statement that has just run
Last == prog[pc - 1]
\* the statement that has just run wrote a cell of the revenue table
WroteRevenueCell ==
    /\ pc > 1 /\ pc - 1 <= Len(prog)
    /\ Last.op = "cell" /\ Last.sh = CalcSheet
    /\ Last.row \in FirmRows /\ Last.col \in 2..7
\* the Revenue Calculator sheet has just been left for the next sheet, or
\* the script has ended
RevenueTableDone ==
    \/ exit = 0
    \/ /\ pc > 1 /\ pc - 1 <= Len(prog)
       /\ Last.op = "create_sheet" /\ Len(sheets) = CalcSheet + 1

\* C24: in the Revenue Calculator of the three pricing workbooks, for each
\* firm-count row r of 13..28 the contract-value cells are A{r} times the
\* absolute input cell B5 or B6 times 24 or 36, Difference is E{r} minus
\* B{r} and Avg MRR is A{r} times (B5+B6)/2; every formula of row r reads
\* the firm count of row r and no formula spells a price. Every cell of the
\* table is examined when it is written, and the whole table when the
\* sheet is left and when the script ends.
C24_RevenueFormulasLinkedToInputs ==
    (script \in {"v1", "v2", "v3"} /\ CalcSheet # 0) =>
        /\ (WroteRevenueCell /\ ValueAt(CalcSheet, Last.row, Last.col) # None) =>
              CellLinked(Last.row, Last.col)
        /\ RevenueTableDone =>
              /\ InputPrices = {"250", "300", "350"}
              /\ \A r \in FirmRows : \A c \in 2..7 : CellLinked(r, c)
              /\ \A c \in 1..7 : ValueAt(CalcSheet, 29, c) = None
\* the revenue table of a workbook is complete
C24_Witness ==
    /\ script \in {"v1", "v2", "v3"} /\ CalcSheet # 0 /\ Len(sheets) > CalcSheet
    /\ ValueAt(CalcSheet, 28, 1) = Num(300)
    /\ ValueAt(CalcSheet, 28, 7) = Str("=A28*($B$5+$B$6)/2")

(***************************************************************************)
(* The fills of the MEMA answers sheet                                     *)
(***************************************************************************)
Green == PatternFill("C6EFCE")
Yellow == PatternFill("FFEB9C")
\* the data rows of the answers sheet, under the headers of row 1
MemaDataRows == 2..89
\* the Status value asks for an action
AsksAction(v) == IsStr(v) /\ (Contains(v.s, "ACTION") \/ Contains(v.s, "Confirm"))
\* the fill of the Status cells follows their values
StatusFillsFollowValues ==
    \A k \in CellsOf(1) :
        (k[2] \in MemaDataRows /\ k[3] = 5) =>
            /\ cells[k].fill = Green <=> cells[k].value = Str("Ready")
            /\ cells[k].fill = Yellow <=>
                  (cells[k].value # Str("Ready") /\ AsksAction(cells[k].value))
            /\ cells[k].fill \in {Green, Yellow, DefaultFill}

\* C25 as stated: the Status cells are green exactly when 'Ready', yellow
\* exactly when not 'Ready' and naming 'ACTION' or 'Confirm', unfilled
\* otherwise, and no cell outside the Status column is filled.
C25_OnlyStatusColumnFilled ==
    script = "mema" =>
        /\ StatusFillsFollowValues
        /\ \A k \in CellsOf(1) : k[3] # 5 => cells[k].fill = DefaultFill

\* C25, amended: the Status cells of the data rows are green exactly when
\* 'Ready', yellow exactly when not 'Ready' and naming 'ACTION' or
\* 'Confirm', unfilled otherwise; no cell of a data row outside the Status
\* column is filled and no cell outside the Status column is green or
\* yellow, while the header row carries the header fill in its five columns.
C25_StatusFills ==
    script = "mema" =>
        /\ StatusFillsFollowValues
        /\ \A k \in DOMAIN cells :
              (k[1] # 1 \/ k[3] # 5) =>
                  /\ cells[k].fill \notin {Green, Yellow}
                  /\ (k[1] = 1 /\ k[2] \in MemaDataRows) => cells[k].fill = DefaultFill
        /\ \A k \in CellsOf(1) :
              k[2] = 1 => cells[k].fill = PatternFill("2F5496")
\* the answers sheet is written: it has green, yellow and unfilled Status
\* cells, and filled header cells outside the Status column
C25_Witness ==
    /\ script = "mema" /\ Len(sheets) = 2
    /\ \E k \in CellsOf(1) : k[3] = 5 /\ cells[k].value = Str("Ready") /\ cells[k].fill = Green
    /\ \E k \in CellsOf(1) : k[3] = 5 /\ cells[k].value = Str("Confirm email") /\ cells[k].fill = Yellow
    /\ \E k \in CellsOf(1) : k[3] = 5 /\ cells[k].value = Str("N/A") /\ cells[k].fill = DefaultFill
    /\ ValueAt(1, 89, 5) # None
    /\ FillAt(1, 1, 1) # DefaultFill

(***************************************************************************)
(* The regions written on a sheet                                          *)
(***************************************************************************)
\* the statement about to run assigns a value to a cell
AssignsValue == At("cell") /\ Cur.v # KeepValue
\* the cells of the merged ranges other than their top-left anchors
NonAnchorCells ==
    UNION {{<<m[1], r, c>> : r \in m[2]..m[4], c \in m[3]..m[5]} \ {<<m[1], m[2], m[3]>>} :
           m \in merged}

\* C26: over the whole run of each script no cell is assigned a value more
\* than once, and no non-anchor cell of a merged range holds or is given a
\* value.
C26_RegionsNeverOverlap ==
    /\ [][(AssignsValue /\ cells' # cells) =>
             /\ CellOf(cells, <<Cur.sh, Cur.row, Cur.col>>).value = None
             /\ <<Cur.sh, Cur.row, Cur.col>> \notin NonAnchorCells]_vars
    /\ [](\A k \in NonAnchorCells : CellOf(cells, k).value = None)
\* C26, reached: v3 has ended; its sheets carry merged title blocks, and on
\* the ROI Calculator sheet the results table and the chart helper table
\* stand side by side in the same rows
C26_Witness ==
    /\ script = "v3" /\ exit = 0
    /\ <<5, 1, 1, 1, 4>> \in merged
    /\ ValueAt(5, 1, 1) # None
    /\ ValueAt(5, 33, 1) = Str("Metric")
    /\ ValueAt(5, 33, 5) = Str("Category")
    /\ \A k \in NonAnchorCells : CellOf(cells, k).value = None

====
